---- MODULE Spec2Model ----
(***************************************************************************)
(* The HTTP rule engine of internal/route/rules: the two-phase pipeline    *)
(* executor built by Rules.BuildHandler, the command handlers it runs      *)
(* (Handler, IfBlockCommand, IfElseBlockCommand, Commands) and the split   *)
(* of a rule body into its pre and post lists done by Command.Parse.       *)
(***************************************************************************)
EXTENDS Integers, Sequences, FiniteSets, TLC

VARIABLES
    rules,                  \* the parsed rule set the handler was built from
    reqPath,                \* the request: does its path satisfy "path /"
    pc,                     \* position of the request in the handler closure
    idx,                    \* loop index of the running loop over nonDefaultRules
    executedPre,            \* executedPre[i], i indexes nonDefaultRules
    terminatedInPre,        \* terminatedInPre[i]
    matchedNonDefaultPre,
    preTerminated,
    hasError,
    defaultExecutedPre,
    defaultTerminatedInPre,
    status,                 \* rm: status code, 0 while none was written
    errs,                   \* rm: number of errors appended with AppendError
    upCalls,                \* calls of the upstream handler so far
    flushed,                \* calls of rm.FlushRelease so far
    trace,                  \* history: every executed command, in order
    upStep,                 \* history: what the upstream step did
    checked,                \* history: the result of each rule's On.Check, by declaration index
    listRuns,               \* history: started runs of each rule's pre and post list
    arg,                    \* the input of the parse-time function under study
    ret,                    \* what that function returned
    cur,                    \* the request whose goroutine is running
    parked                  \* closure locals of the requests that are not running

vars == <<rules, reqPath, pc, idx, executedPre, terminatedInPre,
          matchedNonDefaultPre, preTerminated, hasError, defaultExecutedPre,
          defaultTerminatedInPre, status, errs, upCalls, flushed, trace,
          upStep, checked, listRuns, arg, ret, cur, parked>>

----------------------------------------------------------------------------
(* Bounds of the model *)

MaxRules == 2

----------------------------------------------------------------------------
(* Phase flags *)

PhaseNone == 0
PhasePre == 1
PhasePost == 2

\* an IsPostRule that takes only the phase that is Post alone
IsPostRule_PostOnly(phase) == phase = PhasePost

\* phase & PhasePost != 0
IsPostRule(phase) == (phase \div PhasePost) % 2 = 1

\* a | b on the two phase bits
PhaseOr(a, b) ==
    (IF a % 2 = 1 \/ b % 2 = 1 THEN PhasePre ELSE PhaseNone)
    + (IF IsPostRule(a) \/ IsPostRule(b) THEN PhasePost ELSE PhaseNone)

----------------------------------------------------------------------------
(* HTTP status codes written by the commands and the executor *)

\* the code of the rules' `error 403 ...` commands
StatusForbidden == 403

\* the code the executor answers with after a failed pre command
StatusInternalServerError == 500

\* what the upstream handler may answer: found or not found
UpstreamStatuses == {200, 404}

\* what the AuthHandler hook may answer with when it writes a response
AuthStatuses == {401}

----------------------------------------------------------------------------
(* The command catalog: phase returned by validate, and the terminate flag *)

CommandUpstream == "upstream"
CommandRequireAuth == "require_auth"
CommandError == "error"
CommandErrorTmpl == "error $status_code"
CommandSetHeader == "set header"
CommandSetRespHeader == "set resp_header"
CommandLog == "log"

commands ==
    [n \in {CommandUpstream, CommandRequireAuth, CommandError, CommandErrorTmpl,
            CommandSetHeader, CommandSetRespHeader, CommandLog} |->
        CASE n = CommandUpstream      -> [phase |-> PhaseNone, terminate |-> TRUE]
          [] n = CommandRequireAuth   -> [phase |-> PhasePre, terminate |-> FALSE]
          [] n = CommandError         -> [phase |-> PhasePre, terminate |-> TRUE]
          [] n = CommandErrorTmpl     -> [phase |-> PhaseOr(PhasePre, PhasePost), terminate |-> TRUE]
          [] n = CommandSetHeader     -> [phase |-> PhasePre, terminate |-> FALSE]
          [] n = CommandSetRespHeader -> [phase |-> PhasePost, terminate |-> FALSE]
          [] n = CommandLog           -> [phase |-> PhaseNone, terminate |-> FALSE]]

----------------------------------------------------------------------------
(* Strings.  A Go string is modelled as the sequence of its bytes, each a  *)
(* one-character string; NUL, BSL and BQ stand for single bytes.           *)

NUL == "NUL"

\* BSL stands for the byte '\'
BSL == "BSL"

\* BQ stands for the back quote
BQ == "BQ"

\* byte values, for the order slices.Sort puts strings in
Ord ==
    [c \in {NUL, "\t", "\n", "\r", " ", "\"", "$", "&", "'", "(", ")", "/",
            "4", "A", "B", "E", "G", "T", "X", BSL, BQ, "a", "d", "e", "f",
            "h", "l", "m", "o", "p", "s", "t", "u", "x", "{", "|", "}"} |->
        CASE c = NUL -> 0 [] c = "\t" -> 9 [] c = "\n" -> 10 [] c = "\r" -> 13
          [] c = " " -> 32 [] c = "\"" -> 34 [] c = "$" -> 36 [] c = "&" -> 38
          [] c = "'" -> 39 [] c = "(" -> 40 [] c = ")" -> 41 [] c = "/" -> 47
          [] c = "4" -> 52 [] c = "A" -> 65 [] c = "B" -> 66 [] c = "E" -> 69
          [] c = "G" -> 71 [] c = "T" -> 84 [] c = "X" -> 88 [] c = BSL -> 92
          [] c = BQ -> 96 [] c = "a" -> 97 [] c = "d" -> 100 [] c = "e" -> 101
          [] c = "f" -> 102 [] c = "h" -> 104 [] c = "l" -> 108
          [] c = "m" -> 109 [] c = "o" -> 111 [] c = "p" -> 112
          [] c = "s" -> 115 [] c = "t" -> 116 [] c = "u" -> 117
          [] c = "x" -> 120 [] c = "{" -> 123 [] c = "|" -> 124
          [] c = "}" -> 125]

\* asciiSpace (on.go:504), the bytes strings.TrimSpace and unicode.IsSpace
\* take for white space among the bytes of the model
asciiSpace == {"\t", "\n", "\r", " "}

\* andSeps (on.go:505)
andSeps == {"&", "\n"}

RECURSIVE TrimSpace(_)
\* strings.TrimSpace
TrimSpace(s) ==
    IF s = <<>> THEN s
    ELSE IF Head(s) \in asciiSpace THEN TrimSpace(Tail(s))
    ELSE IF s[Len(s)] \in asciiSpace THEN TrimSpace(SubSeq(s, 1, Len(s) - 1))
    ELSE s

RECURSIVE Join(_, _)
\* strings.Join
Join(parts, sep) ==
    IF parts = <<>> THEN <<>>
    ELSE IF Len(parts) = 1 THEN parts[1]
    ELSE parts[1] \o sep \o Join(Tail(parts), sep)

RECURSIVE StrLess(_, _)
\* the order of Go strings: byte by byte, a proper prefix first
StrLess(a, b) ==
    IF b = <<>> THEN FALSE
    ELSE IF a = <<>> THEN TRUE
    ELSE IF Head(a) # Head(b) THEN Ord[Head(a)] < Ord[Head(b)]
    ELSE StrLess(Tail(a), Tail(b))

RECURSIVE SortCompact(_)

\* a canonical form that merges equal neighbours without sorting
SortCompact_Unsorted(xs) ==
    IF Len(xs) < 2 THEN xs
    ELSE IF xs[1] = xs[2] THEN SortCompact(Tail(xs))
    ELSE <<xs[1]>> \o SortCompact(Tail(xs))

\* slices.Sort followed by slices.Compact: ascending, equal neighbours merged
SortCompact(xs) ==
    IF xs = <<>> THEN <<>>
    ELSE LET least == CHOOSE i \in 1..Len(xs) :
                          \A j \in 1..Len(xs) : ~StrLess(xs[j], xs[i])
             rest == SelectSeq(xs, LAMBDA x : x # xs[least])
         IN <<xs[least]>> \o SortCompact(rest)

\* indexAnd (on.go:508-515): 0 stands for -1, indexes count from 1
indexAnd(s) ==
    IF \E i \in 1..Len(s) : s[i] \in andSeps
    THEN CHOOSE i \in 1..Len(s) :
             s[i] \in andSeps /\ \A j \in 1..(i - 1) : s[j] \notin andSeps
    ELSE 0

RECURSIVE splitAnd(_)
\* splitAnd (on.go:529-564): cut at the first separator, keep the trimmed
\* segment unless it is empty, go on with the rest
splitAnd(s) ==
    IF s = <<>> THEN <<>>
    ELSE LET end == indexAnd(s)
         IN IF end = 0
            THEN IF TrimSpace(s) # <<>> THEN <<TrimSpace(s)>> ELSE <<>>
            ELSE LET seg == TrimSpace(SubSeq(s, 1, end - 1))
                     rest == splitAnd(SubSeq(s, end + 1, Len(s)))
                 IN IF seg # <<>> THEN <<seg>> \o rest ELSE rest

\* forEachAndPart (on.go:580-592): the parts handed to fn, in order
forEachAndPart(s) ==
    LET RECURSIVE scan(_, _)
        scan(start, i) ==
            IF i > Len(s) + 1 THEN <<>>
            ELSE IF i <= Len(s) /\ s[i] \notin andSeps THEN scan(start, i + 1)
            ELSE LET part == TrimSpace(SubSeq(s, start, i - 1))
                 IN (IF part # <<>> THEN <<part>> ELSE <<>>) \o scan(i + 1, i + 1)
    IN scan(1, 1)

\* the scan of forEachPipePart (on.go:594-631): cut at the bytes of seps
\* that stand outside quotes and brackets and are not escaped
forEachPart(s, seps) ==
    LET RECURSIVE scan(_, _, _, _)
        scan(i, quote, brackets, start) ==
            IF i > Len(s)
            THEN LET part == TrimSpace(SubSeq(s, start, Len(s)))
                 IN IF start <= Len(s) /\ part # <<>> THEN <<part>> ELSE <<>>
            ELSE LET c == s[i]
                 IN CASE c = BSL ->
                           scan((IF i + 1 <= Len(s) THEN i + 2 ELSE i + 1),
                                quote, brackets, start)
                      [] c \in {"\"", "'", BQ} ->
                           scan(i + 1,
                                (IF quote = "" /\ brackets = 0 THEN c
                                 ELSE IF c = quote THEN "" ELSE quote),
                                brackets, start)
                      [] c = "(" -> scan(i + 1, quote, brackets + 1, start)
                      [] c = ")" ->
                           scan(i + 1, quote,
                                (IF brackets > 0 THEN brackets - 1 ELSE brackets),
                                start)
                      [] c \in seps /\ quote = "" /\ brackets = 0 ->
                           LET part == TrimSpace(SubSeq(s, start, i - 1))
                           IN (IF part # <<>> THEN <<part>> ELSE <<>>)
                                  \o scan(i + 1, quote, brackets, i + 1)
                      [] OTHER -> scan(i + 1, quote, brackets, start)
    IN scan(1, "", 0, 1)

\* forEachPipePart (on.go:594-631)
forEachPipePart(s) == forEachPart(s, {"|"})

\* splitPipe (on.go:568-578)
splitPipe(s) == IF s = <<>> THEN <<>> ELSE forEachPipePart(s)

----------------------------------------------------------------------------
(* parse (parser.go): an expression to its subject and arguments           *)

\* the environment of the process, read through env.LookupEnv
Environ ==
    [n \in {<<"A">>, <<"B">>} |->
        IF n = <<"A">> THEN <<"x">> ELSE <<"$", "{", "A", "}">>]

\* escapedChars (parser.go:11-19)
escapedChars ==
    [c \in {"n", "t", "r", "'", "\"", BSL, " "} |->
        CASE c = "n" -> "\n" [] c = "t" -> "\t" [] c = "r" -> "\r"
          [] OTHER -> c]

\* quoteChars (parser.go:21-25)
quoteChars == {"\"", "'", BQ}

\* the words of v: maximal runs of bytes other than ' '
Fields(v) ==
    LET RECURSIVE scan(_, _)
        scan(i, word) ==
            IF i > Len(v) THEN (IF word # <<>> THEN <<word>> ELSE <<>>)
            ELSE IF v[i] = " "
                 THEN (IF word # <<>> THEN <<word>> ELSE <<>>) \o scan(i + 1, <<>>)
                 ELSE scan(i + 1, Append(word, v[i]))
    IN scan(1, <<>>)

\* parseSimple (parser.go:27-95): the path for expressions without quotes,
\* escapes, '$' and white space other than ' '
parseSimple(v) ==
    LET RECURSIVE check(_, _)
        check(i, brackets) ==
            IF i > Len(v)
            THEN (IF brackets # 0 THEN "ErrUnterminatedBrackets" ELSE "simple")
            ELSE IF v[i] \in {BSL, "$", "\"", "'", BQ, "\t", "\r", "\n"}
                 THEN "general"
            ELSE IF v[i] = "(" THEN check(i + 1, brackets + 1)
            ELSE IF v[i] = ")"
                 THEN (IF brackets = 0 THEN "ErrUnterminatedBrackets"
                       ELSE check(i + 1, brackets - 1))
            ELSE check(i + 1, brackets)
        result(kind, words) ==
            CASE kind = "general" ->
                   [ok |-> FALSE, subject |-> <<>>, args |-> <<>>, err |-> {}]
              [] kind = "ErrUnterminatedBrackets" ->
                   [ok |-> TRUE, subject |-> <<>>, args |-> <<>>, err |-> {kind}]
              [] OTHER ->
                   [ok |-> TRUE,
                    subject |-> IF words = <<>> THEN <<>> ELSE Head(words),
                    args |-> IF words = <<>> THEN <<>> ELSE Tail(words),
                    err |-> {}]
    IN result(check(1, 0), Fields(v))

\* parse (parser.go:103-252)
parse(v) ==
    LET write(st, bytes) == [st EXCEPT !.buf = @ \o bytes]
        \* the closure flush (parser.go:120-143): an unquoted part loses its
        \* leading white space and is dropped, the buffer kept, when nothing
        \* else is in it
        lead(part) ==
            IF \A i \in 1..Len(part) : part[i] \in asciiSpace
            THEN Len(part)
            ELSE (CHOOSE i \in 1..Len(part) :
                      /\ part[i] \notin asciiSpace
                      /\ \A j \in 1..(i - 1) : part[j] \in asciiSpace) - 1
        store(st, beg) ==
            IF st.subject = <<>>
            THEN [st EXCEPT !.subject = SubSeq(st.buf, beg + 1, Len(st.buf)),
                            !.buf = <<>>]
            ELSE [st EXCEPT !.args = Append(@, SubSeq(st.buf, beg + 1, Len(st.buf))),
                            !.buf = <<>>]
        trimmed(st, beg) == IF beg = Len(st.buf) THEN st ELSE store(st, beg)
        flush(st, quoted) ==
            IF quoted THEN store(st, 0) ELSE trimmed(st, lead(st.buf))
        \* the rune r when it is not escaped (parser.go:160-230)
        switch(st, r) ==
            CASE r \in quoteChars ->
                   (IF st.quote = "" /\ st.brackets = 0
                    THEN flush([st EXCEPT !.quote = r], FALSE)
                    ELSE IF r = st.quote
                    THEN flush([st EXCEPT !.quote = ""], TRUE)
                    ELSE write(st, <<r>>))
              [] r = BSL -> [st EXCEPT !.escaped = TRUE]
              [] r = "$" ->
                   (IF st.expectingBrace
                    THEN [write(st, <<"$">>) EXCEPT !.expectingBrace = FALSE]
                    ELSE [st EXCEPT !.expectingBrace = TRUE])
              [] r = "{" ->
                   (IF st.expectingBrace
                    THEN [st EXCEPT !.inEnvVar = TRUE, !.expectingBrace = FALSE,
                                    !.envVar = <<>>]
                    ELSE write(st, <<r>>))
              [] r = "}" ->
                   (IF ~st.inEnvVar THEN write(st, <<r>>)
                    ELSE IF st.envVar \in DOMAIN Environ
                    THEN [write(st, Environ[st.envVar]) EXCEPT !.inEnvVar = FALSE]
                    ELSE [st EXCEPT !.missing = Append(@, st.envVar),
                                    !.inEnvVar = FALSE])
              [] r = "(" -> [write(st, <<r>>) EXCEPT !.brackets = @ + 1]
              [] r = ")" ->
                   (IF st.brackets = 0
                    THEN [st EXCEPT !.stop = TRUE, !.err = {"ErrUnterminatedBrackets"}]
                    ELSE [write(st, <<r>>) EXCEPT !.brackets = @ - 1])
              [] r = " " ->
                   (IF st.quote = "" THEN flush(st, FALSE) ELSE write(st, <<r>>))
              [] OTHER ->
                   (IF st.inEnvVar THEN [st EXCEPT !.envVar = Append(@, r)]
                    ELSE write(st, <<r>>))
        \* the body of the loop over the runes of v (parser.go:145-231)
        step(st, r) ==
            IF st.stop THEN st
            ELSE IF st.escaped
            THEN [write(st, IF r \in DOMAIN escapedChars
                            THEN <<escapedChars[r]>> ELSE <<BSL, r>>)
                    EXCEPT !.escaped = FALSE]
            ELSE switch(IF st.expectingBrace /\ r \notin {"{", "$"}
                        THEN [write(st, <<"$">>) EXCEPT !.expectingBrace = FALSE]
                        ELSE st, r)
        RECURSIVE run(_, _)
        run(st, i) == IF i > Len(v) THEN st ELSE run(step(st, v[i]), i + 1)
        \* after the loop (parser.go:233-251)
        finish(tail) ==
            CASE tail.quote # "" -> [tail EXCEPT !.err = {"ErrUnterminatedQuotes"}]
              [] tail.brackets # 0 -> [tail EXCEPT !.err = {"ErrUnterminatedBrackets"}]
              [] tail.inEnvVar -> [tail EXCEPT !.err = {"ErrUnterminatedEnvVar"}]
              [] OTHER -> flush(tail, FALSE)
        joined(end) ==
            [subject |-> end.subject, args |-> end.args,
             err |-> end.err \cup (IF end.missing # <<>>
                                   THEN {"ErrEnvVarNotFound"} ELSE {})]
        result(last) ==
            IF last.stop
            THEN [subject |-> last.subject, args |-> last.args, err |-> last.err]
            ELSE joined(finish(IF last.expectingBrace
                               THEN write(last, <<"$">>) ELSE last))
        general(simple) ==
            IF simple.ok
            THEN [subject |-> simple.subject, args |-> simple.args, err |-> simple.err]
            ELSE result(run([buf |-> <<>>, subject |-> <<>>, args |-> <<>>,
                             escaped |-> FALSE, quote |-> "", brackets |-> 0,
                             envVar |-> <<>>, missing |-> <<>>, inEnvVar |-> FALSE,
                             expectingBrace |-> FALSE, err |-> {}, stop |-> FALSE], 1))
    IN general(parseSimple(v))


----------------------------------------------------------------------------
(* Conditions (RuleOn): raw text and phase; the checker is decided by raw  *)

OnDefault == <<"d", "e", "f", "a", "u", "l", "t">>
OnPath == <<"p", "a", "t", "h", " ", "/">>
OnStatus4xx == <<"s", "t", "a", "t", "u", "s", " ", "4", "x", "x">>

\* the catalog of matchers (on.go:50-501): the phase validate returns and
\* the numbers of arguments it accepts
checkers ==
    [s \in {<<"d", "e", "f", "a", "u", "l", "t">>, <<"h", "e", "a", "d", "e", "r">>, <<"m", "e", "t", "h", "o", "d">>, <<"p", "a", "t", "h">>, <<"s", "t", "a", "t", "u", "s">>} |->
        CASE s = <<"d", "e", "f", "a", "u", "l", "t">> -> [phase |-> PhaseNone, args |-> {0}]
          [] s = <<"h", "e", "a", "d", "e", "r">> -> [phase |-> PhaseNone, args |-> {1, 2}]
          [] s = <<"s", "t", "a", "t", "u", "s">> -> [phase |-> PhasePost, args |-> {1}]
          [] OTHER -> [phase |-> PhaseNone, args |-> {1}]]

\* parseOnAtom (on.go:697-729): the phase and the errors
parseOnAtom(line) ==
    LET lookup(subject, args) ==
            IF subject \notin DOMAIN checkers
            THEN [phase |-> PhaseNone, err |-> {"ErrInvalidOnTarget"}]
            ELSE IF Len(args) \notin checkers[subject].args
            THEN [phase |-> PhaseNone, err |-> {"ErrInvalidArguments"}]
            ELSE [phase |-> checkers[subject].phase, err |-> {}]
        atom(p) ==
            IF p.err # {} THEN [phase |-> PhaseNone, err |-> p.err]
            ELSE IF p.subject # <<>> /\ Head(p.subject) = "!"
            THEN lookup(Tail(p.subject), p.args)
            ELSE lookup(p.subject, p.args)
    IN atom(parse(line))

\* the phases of the parts that parse, or-ed, and every error
MergeParts(parts) ==
    LET RECURSIVE merge(_)
        merge(k) ==
            IF k > Len(parts) THEN [phase |-> PhaseNone, err |-> {}]
            ELSE [phase |-> IF parts[k].err = {}
                            THEN PhaseOr(parts[k].phase, merge(k + 1).phase)
                            ELSE merge(k + 1).phase,
                  err |-> parts[k].err \cup merge(k + 1).err]
    IN merge(1)

\* parseOn (on.go:668-695)
parseOn(line) ==
    LET each(ors) ==
            IF Len(ors) > 1
            THEN MergeParts([k \in 1..Len(ors) |-> parseOnAtom(ors[k])])
            ELSE parseOnAtom(line)
    IN each(forEachPipePart(line))

\* RuleOn.Parse (on.go:634-658): raw, phase and the errors
RuleOnParse(v) ==
    LET each(ands) == MergeParts([k \in 1..Len(ands) |-> parseOn(ands[k])])
        result(m) == [raw |-> v, phase |-> m.phase, err |-> m.err]
    IN result(each(forEachAndPart(v)))

\* a condition that parsed
RuleOn(raw) == [raw |-> raw, phase |-> RuleOnParse(raw).phase]

\* RuleOn.Check: a nil checker and an empty expression match every request
OnCheck(on, st, path) ==
    CASE on.raw = <<>> -> TRUE
      [] on.raw = OnDefault -> TRUE
      [] on.raw = OnPath -> path
      [] on.raw = OnStatus4xx -> st.status >= 400 /\ st.status <= 499

----------------------------------------------------------------------------
(* Command handlers: Handler, IfBlockCommand, IfElseBlockCommand *)

Handler(name) ==
    [kind |-> "cmd", name |-> name, Ifs |-> <<>>, Else |-> <<>>]

IfBlockCommand(on, do) ==
    [kind |-> "if", name |-> "", Ifs |-> <<[On |-> on, Do |-> do]>>, Else |-> <<>>]

IfElseBlockCommand(ifs, else) ==
    [kind |-> "ifelse", name |-> "", Ifs |-> ifs, Else |-> else]

RECURSIVE CommandsPhase(_)
RECURSIVE BranchesPhase(_)
RECURSIVE BranchesPhase_BodiesOnly(_)

\* Handler.Phase, IfBlockCommand.Phase, IfElseBlockCommand.Phase
HandlerPhase(c) ==
    IF c.kind = "cmd" THEN commands[c.name].phase
    ELSE PhaseOr(BranchesPhase(c.Ifs), CommandsPhase(c.Else))

\* Commands.Phase
CommandsPhase(cmds) ==
    IF cmds = <<>> THEN PhaseNone
    ELSE PhaseOr(HandlerPhase(Head(cmds)), CommandsPhase(Tail(cmds)))

\* a Phase() of the branches that leaves the conditions out
BranchesPhase_BodiesOnly(ifs) ==
    IF ifs = <<>> THEN PhaseNone
    ELSE PhaseOr(CommandsPhase(Head(ifs).Do), BranchesPhase_BodiesOnly(Tail(ifs)))

BranchesPhase(ifs) ==
    IF ifs = <<>> THEN PhaseNone
    ELSE PhaseOr(PhaseOr(Head(ifs).On.phase, CommandsPhase(Head(ifs).Do)),
                 BranchesPhase(Tail(ifs)))

----------------------------------------------------------------------------
(* Command.Parse: the body is split by Phase() into the pre and post lists. *)
(* A list holds the positions of its entries in the body.                   *)

RECURSIVE SelectPositions(_, _, _)
\* positions k..Len(body) of the entries whose Phase() has (post) or lacks
\* (~post) the Post bit, in body order
SelectPositions(body, k, post) ==
    IF k > Len(body) THEN <<>>
    ELSE IF IsPostRule(HandlerPhase(body[k])) = post
         THEN <<k>> \o SelectPositions(body, k + 1, post)
         ELSE SelectPositions(body, k + 1, post)

Reverse(seq) == [k \in 1..Len(seq) |-> seq[Len(seq) + 1 - k]]

\* a Command.Parse that prepends to its lists instead of appending
CommandParse_Prepends(body) ==
    [raw |-> body,
     pre |-> Reverse(SelectPositions(body, 1, FALSE)),
     post |-> Reverse(SelectPositions(body, 1, TRUE))]

CommandParse(body) ==
    [raw |-> body,
     pre |-> SelectPositions(body, 1, FALSE),
     post |-> SelectPositions(body, 1, TRUE)]

Rule(name, onRaw, body) ==
    [Name |-> name, On |-> RuleOn(onRaw), Do |-> CommandParse(body)]

isDefaultRule(rule) == rule.Name = "default" \/ rule.On.raw = OnDefault

----------------------------------------------------------------------------
(* Running command handlers.  A run threads the per-request state          *)
(* st = [status, upCalls, trace] and yields the set of possible outcomes   *)
(* [st, err], err being "nil", "terminate" (errTerminateRule) or "error".  *)

Event(ctx, pos, name, err) ==
    [rule |-> ctx.rule, stage |-> ctx.stage, loop |-> ctx.loop, list |-> ctx.list,
     pos |-> pos, name |-> name, err |-> err]

\* the upstream handler answers with one of its statuses
Up(st) ==
    {[st EXCEPT !.status = s, !.upCalls = @ + 1] : s \in UpstreamStatuses}

\* the configured AuthHandler hook: its verdict, and whether it wrote a response
AuthOutcomes == [proceed : BOOLEAN, wrote : {0} \cup AuthStatuses]

\* the HandlerFunc built for each command
HandlerFn(name, st) ==
    CASE name = CommandUpstream ->
            {[st |-> s2, err |-> "terminate"] : s2 \in Up(st)}
      [] name = CommandRequireAuth ->
            {[st |-> IF a.wrote # 0 THEN [st EXCEPT !.status = a.wrote] ELSE st,
              err |-> IF a.proceed THEN "nil" ELSE "terminate"] : a \in AuthOutcomes}
      [] name \in {CommandError, CommandErrorTmpl} ->
            {[st |-> [st EXCEPT !.status = StatusForbidden], err |-> "terminate"]}
      [] name \in {CommandSetHeader, CommandSetRespHeader} ->
            {[st |-> st, err |-> "nil"]}
      [] name = CommandLog ->
            {[st |-> st, err |-> e] : e \in {"nil", "error"}}

RECURSIVE CommandsServeHTTP(_, _, _, _)
RECURSIVE IfElseServeHTTP(_, _, _, _, _)

NestedPositions(pos, branch, do) == [k \in 1..Len(do) |-> pos \o <<branch, k>>]

\* Handler.ServeHTTP, IfBlockCommand.ServeHTTP, IfElseBlockCommand.ServeHTTP
ServeHTTP(c, pos, st, ctx) ==
    CASE c.kind = "cmd" ->
            {[st |-> [o.st EXCEPT !.trace = Append(@, Event(ctx, pos, c.name, o.err))],
              err |-> o.err] : o \in HandlerFn(c.name, st)}
      [] c.kind = "if" ->
            LET br == c.Ifs[1] IN
            IF br.Do = <<>> THEN {[st |-> st, err |-> "nil"]}
            ELSE IF OnCheck(br.On, st, ctx.path)
                 THEN CommandsServeHTTP(br.Do, NestedPositions(pos, 1, br.Do), st, ctx)
                 ELSE {[st |-> st, err |-> "nil"]}
      [] c.kind = "ifelse" -> IfElseServeHTTP(c, 1, pos, st, ctx)

RECURSIVE IfElseServeHTTP_FallsThrough(_, _, _, _, _)
\* a chain in which a matched branch with an empty body goes on to the
\* branches after it
IfElseServeHTTP_FallsThrough(c, b, pos, st, ctx) ==
    IF b > Len(c.Ifs)
    THEN IF Len(c.Else) > 0
         THEN CommandsServeHTTP(c.Else, NestedPositions(pos, b, c.Else), st, ctx)
         ELSE {[st |-> st, err |-> "nil"]}
    ELSE LET br == c.Ifs[b] IN
         IF OnCheck(br.On, st, ctx.path) /\ br.Do # <<>>
         THEN CommandsServeHTTP(br.Do, NestedPositions(pos, b, br.Do), st, ctx)
         ELSE IfElseServeHTTP_FallsThrough(c, b + 1, pos, st, ctx)

\* the loop of IfElseBlockCommand.ServeHTTP from branch b on
IfElseServeHTTP(c, b, pos, st, ctx) ==
    IF b > Len(c.Ifs)
    THEN IF Len(c.Else) > 0
         THEN CommandsServeHTTP(c.Else, NestedPositions(pos, b, c.Else), st, ctx)
         ELSE {[st |-> st, err |-> "nil"]}
    ELSE LET br == c.Ifs[b] IN
         IF OnCheck(br.On, st, ctx.path)
         THEN IF br.Do = <<>> THEN {[st |-> st, err |-> "nil"]}
              ELSE CommandsServeHTTP(br.Do, NestedPositions(pos, b, br.Do), st, ctx)
         ELSE IfElseServeHTTP(c, b + 1, pos, st, ctx)

RECURSIVE CommandsServeHTTP_KeepsGoing(_, _, _, _)
\* a Commands.ServeHTTP that reports the first error but still runs the rest
CommandsServeHTTP_KeepsGoing(cmds, poss, st, ctx) ==
    IF cmds = <<>> THEN {[st |-> st, err |-> "nil"]}
    ELSE UNION {{[st |-> o2.st, err |-> IF o.err # "nil" THEN o.err ELSE o2.err]
                 : o2 \in CommandsServeHTTP_KeepsGoing(Tail(cmds), Tail(poss), o.st, ctx)}
                : o \in ServeHTTP(Head(cmds), Head(poss), st, ctx)}

\* Commands.ServeHTTP: run in order, return the first non-nil error
CommandsServeHTTP(cmds, poss, st, ctx) ==
    IF cmds = <<>> THEN {[st |-> st, err |-> "nil"]}
    ELSE UNION {IF o.err # "nil" THEN {o}
                ELSE CommandsServeHTTP(Tail(cmds), Tail(poss), o.st, ctx)
                : o \in ServeHTTP(Head(cmds), Head(poss), st, ctx)}

\* cmd.pre.ServeHTTP / cmd.post.ServeHTTP of a rule's Command
ListServeHTTP(do, list, st, ctx) ==
    CommandsServeHTTP([k \in 1..Len(list) |-> do.raw[list[k]]],
                      [k \in 1..Len(list) |-> <<list[k]>>], st, ctx)

execPreCommand(do, st, ctx) == ListServeHTTP(do, do.pre, st, ctx)

execPostCommand(do, st, ctx) == ListServeHTTP(do, do.post, st, ctx)

----------------------------------------------------------------------------
(* Rules.BuildHandler: what is fixed when the handler is built *)

RECURSIVE nonDefaultFrom(_, _)
nonDefaultFrom(rs, k) ==
    IF k > Len(rs) THEN <<>>
    ELSE IF isDefaultRule(rs[k]) THEN nonDefaultFrom(rs, k + 1)
         ELSE <<k>> \o nonDefaultFrom(rs, k + 1)

\* a nonDefaultRules built back to front
nonDefaultRules_Reversed(rs) == Reverse(nonDefaultFrom(rs, 1))

\* nonDefaultRules, as the declaration indices of its rules, in order
nonDefaultRules(rs) == nonDefaultFrom(rs, 1)

\* defaultRule, as its declaration index; 0 stands for nil.
\* The loop keeps the last default rule it meets.
defaultRule(rs) ==
    LET ds == {k \in 1..Len(rs) : isDefaultRule(rs[k])}
    IN IF ds = {} THEN 0 ELSE CHOOSE k \in ds : \A j \in ds : j <= k

\* the two early returns: the handler is the upstream handler itself
ReturnsUp(rs) ==
    \/ Len(rs) = 0
    \/ /\ Len(nonDefaultRules(rs)) = 0
       /\ \/ defaultRule(rs) = 0
          \/ rs[defaultRule(rs)].Do.raw = <<Handler(CommandUpstream)>>

----------------------------------------------------------------------------
(* The response modifier, as far as the executor reads it *)

HasStatus(st) == st.status # 0

isUnexpectedError(err) == err = "error"

RM == [status |-> status, upCalls |-> upCalls, trace |-> trace]

Ctx(d, stage, loop, list) ==
    [rule |-> d, stage |-> stage, loop |-> loop, list |-> list, path |-> reqPath]

NumNonDefault == Len(nonDefaultRules(rules))

\* a loop over nonDefaultRules either goes on or falls through to `after`
LoopNext(loop, after) ==
    /\ pc' = IF idx < NumNonDefault THEN loop ELSE after
    /\ idx' = IF idx < NumNonDefault THEN idx + 1 ELSE 1

\* a post phase that returns from the handler on errTerminateRule
AfterPostErr_Returns(err, loop, after) ==
    IF err = "terminate"
    THEN pc' = "flush" /\ idx' = 1
    ELSE LoopNext(loop, after)

\* lines 1363-1365, 1389-1391, 1398-1400: whatever a rule's commands return in
\* the post phase, the loop continues with the next rule
AfterPostErr(err, loop, after) == LoopNext(loop, after)

----------------------------------------------------------------------------
(* The decisions of the handler closure *)

\* a pre loop that stops matching rules once a pre command has failed
SkipsPre_AfterError(rule, st) ==
    hasError \/ IsPostRule(rule.On.phase) \/ ~OnCheck(rule.On, st, reqPath)

\* line 1302: the rule takes no part in the pre loop
SkipsPre(rule, st) == IsPostRule(rule.On.phase) \/ ~OnCheck(rule.On, st, reqPath)

\* a handler that drops every rule met after a pre termination
KeepsPostOnly_Never(rule) == FALSE

\* line 1309: after a pre termination only a rule without pre commands is kept
KeepsPostOnly(rule) == Len(rule.Do.pre) = 0

\* a default rule that runs whenever its own condition matches
RunsDefault_IgnoresMatched(st) ==
    /\ defaultRule(rules) # 0
    /\ ~IsPostRule(rules[defaultRule(rules)].On.phase)
    /\ OnCheck(rules[defaultRule(rules)].On, st, reqPath)

\* line 1333: the default rule is a fallback
RunsDefault(st) ==
    /\ defaultRule(rules) # 0
    /\ ~matchedNonDefaultPre
    /\ ~IsPostRule(rules[defaultRule(rules)].On.phase)
    /\ OnCheck(rules[defaultRule(rules)].On, st, reqPath)

\* an upstream step that does not look at hasError
UpstreamDecision_IgnoresError(st, hasErr) ==
    IF ~HasStatus(st) THEN "upstream" ELSE "skipped"

\* lines 1348-1354: what the upstream step does
UpstreamDecision(st, hasErr) ==
    IF ~HasStatus(st)
    THEN IF hasErr THEN "error500" ELSE "upstream"
    ELSE "skipped"

\* a post loop that gives up once the pre phase terminated
RunsPost_NotAfterTermination(i) ==
    executedPre[i] /\ ~terminatedInPre[i] /\ ~preTerminated

\* a post loop that forgets which rule terminated in pre
RunsPost_IgnoresTermination(i) == executedPre[i]

\* line 1359: the rule's post commands run
RunsPost(i) == executedPre[i] /\ ~terminatedInPre[i]

\* line 1372
RunsDefaultPost == defaultExecutedPre /\ ~defaultTerminatedInPre

\* line 1383: the rule takes part in the post-matcher loop
RunsPostMatcher(rule, st) == IsPostRule(rule.On.phase) /\ OnCheck(rule.On, st, reqPath)

----------------------------------------------------------------------------
(* The rule sets and requests the handler is exercised on *)

Ons == {<<>>, OnPath, OnDefault, OnStatus4xx}

Bodies ==
    { <<Handler(CommandSetHeader)>>,
      <<Handler(CommandSetRespHeader)>>,
      <<Handler(CommandSetRespHeader), Handler(CommandSetHeader)>>,
      <<Handler(CommandError), Handler(CommandSetHeader), Handler(CommandSetRespHeader)>>,
      <<Handler(CommandRequireAuth), Handler(CommandSetRespHeader)>>,
      <<Handler(CommandLog), Handler(CommandSetHeader), Handler(CommandSetRespHeader)>>,
      <<Handler(CommandErrorTmpl), Handler(CommandSetRespHeader)>>,
      <<Handler(CommandUpstream)>> }

\* bodies with a nested block
BlockBodies ==
    { <<Handler(CommandSetHeader),
        IfBlockCommand(RuleOn(OnPath), <<Handler(CommandSetHeader), Handler(CommandError)>>),
        Handler(CommandSetRespHeader)>>,
      <<IfBlockCommand(RuleOn(OnPath), <<Handler(CommandSetRespHeader)>>),
        Handler(CommandSetHeader)>>,
      <<IfElseBlockCommand(<<[On |-> RuleOn(OnPath), Do |-> <<Handler(CommandError)>>]>>,
                           <<Handler(CommandSetHeader)>>),
        Handler(CommandSetRespHeader)>> }

\* rules declared with a condition, and rules made default by their name
RuleCatalog ==
    {Rule("", on, body) : on \in Ons, body \in Bodies}
    \cup {Rule("", on, body) : on \in {<<>>, OnPath}, body \in BlockBodies}
    \cup {Rule("default", OnPath, <<Handler(CommandSetHeader), Handler(CommandSetRespHeader)>>),
          Rule("default", OnStatus4xx, <<Handler(CommandSetRespHeader)>>)}

RuleSets == UNION {[1..n -> RuleCatalog] : n \in 0..MaxRules}

----------------------------------------------------------------------------
(* The handler closure, one action per step or loop iteration *)

\* a request entering the handler BuildHandler(up) returned for rs
Enter(rs) ==
    /\ rules = rs
    /\ reqPath \in BOOLEAN
    /\ pc = IF ReturnsUp(rs) THEN "direct"
            ELSE IF Len(nonDefaultRules(rs)) > 0 THEN "pre" ELSE "default"
    /\ idx = 1
    /\ executedPre = [i \in 1..Len(nonDefaultRules(rs)) |-> FALSE]
    /\ terminatedInPre = [i \in 1..Len(nonDefaultRules(rs)) |-> FALSE]
    /\ matchedNonDefaultPre = FALSE
    /\ preTerminated = FALSE
    /\ hasError = FALSE
    /\ defaultExecutedPre = FALSE
    /\ defaultTerminatedInPre = FALSE
    /\ status = 0
    /\ errs = 0
    /\ upCalls = 0
    /\ flushed = 0
    /\ trace = <<>>
    /\ upStep = [act |-> "pending", hadStatus |-> FALSE]
    /\ checked = [d \in 1..Len(rs) |-> "unchecked"]
    /\ listRuns = [d \in 1..Len(rs) |-> [pre |-> 0, post |-> 0]]

\* no parse-time call is under study
NoCall == [fn |-> "none"]

\* one request, alone in the handler
Init ==
    /\ \E rs \in RuleSets : Enter(rs)
    /\ arg = NoCall
    /\ ret = NoCall
    /\ cur = 1
    /\ parked = <<>>

SetRM(st) ==
    /\ status' = st.status
    /\ upCalls' = st.upCalls
    /\ trace' = st.trace

\* rm.AppendError, called for an unexpected error only
AppendError(err) ==
    errs' = IF err = "error" /\ isUnexpectedError(err) THEN errs + 1 ELSE errs

CountRun(d, list) ==
    listRuns' = [listRuns EXCEPT ![d][list] = @ + 1]

\* the handler returned by the early returns is the upstream handler
ServeDirect ==
    /\ pc = "direct"
    /\ \E s \in Up(RM) : SetRM(s)
    /\ pc' = "done"
    /\ UNCHANGED <<rules, reqPath, arg, ret, cur, parked, idx, executedPre, terminatedInPre,
                   matchedNonDefaultPre, preTerminated, hasError,
                   defaultExecutedPre, defaultTerminatedInPre, errs, flushed,
                   upStep, checked, listRuns>>

\* one iteration of the pre loop (lines 1301-1328)
PreRule ==
    /\ pc = "pre"
    /\ LET d == nonDefaultRules(rules)[idx]
           rule == rules[d]
       IN /\ checked' = IF IsPostRule(rule.On.phase) THEN checked
                        ELSE [checked EXCEPT ![d] = IF OnCheck(rule.On, RM, reqPath)
                                                    THEN "matched" ELSE "unmatched"]
          /\ IF SkipsPre(rule, RM)
             THEN UNCHANGED <<executedPre, terminatedInPre, matchedNonDefaultPre,
                              preTerminated, hasError, status, errs, upCalls, trace,
                              listRuns>>
             ELSE /\ matchedNonDefaultPre' = TRUE
                  /\ IF preTerminated
                     THEN /\ executedPre' = IF KeepsPostOnly(rule)
                                            THEN [executedPre EXCEPT ![idx] = TRUE]
                                            ELSE executedPre
                          /\ UNCHANGED <<terminatedInPre, preTerminated, hasError,
                                         status, errs, upCalls, trace, listRuns>>
                     ELSE /\ executedPre' = [executedPre EXCEPT ![idx] = TRUE]
                          /\ CountRun(d, "pre")
                          /\ \E o \in execPreCommand(rule.Do, RM, Ctx(d, "pre", "pre", "pre")) :
                               /\ SetRM(o.st)
                               /\ terminatedInPre' = IF o.err = "terminate"
                                                     THEN [terminatedInPre EXCEPT ![idx] = TRUE]
                                                     ELSE terminatedInPre
                               /\ preTerminated' = (o.err = "terminate")
                               /\ AppendError(o.err)
                               /\ hasError' = (hasError \/ o.err = "error")
    /\ LoopNext("pre", "default")
    /\ UNCHANGED <<rules, reqPath, arg, ret, cur, parked, defaultExecutedPre, defaultTerminatedInPre,
                   flushed, upStep>>

\* the default rule's pre commands (lines 1330-1346)
DefaultPre ==
    /\ pc = "default"
    /\ LET d == defaultRule(rules)
       IN /\ checked' = IF d # 0 /\ ~matchedNonDefaultPre /\ ~IsPostRule(rules[d].On.phase)
                        THEN [checked EXCEPT ![d] = IF OnCheck(rules[d].On, RM, reqPath)
                                                    THEN "matched" ELSE "unmatched"]
                        ELSE checked
          /\ IF RunsDefault(RM)
             THEN /\ defaultExecutedPre' = TRUE
                  /\ CountRun(d, "pre")
                  /\ \E o \in execPreCommand(rules[d].Do, RM, Ctx(d, "pre", "defaultPre", "pre")) :
                       /\ SetRM(o.st)
                       /\ defaultTerminatedInPre' = (o.err = "terminate")
                       /\ AppendError(o.err)
                       /\ hasError' = (hasError \/ o.err = "error")
             ELSE UNCHANGED <<defaultExecutedPre, defaultTerminatedInPre, hasError,
                              status, errs, upCalls, trace, listRuns>>
    /\ pc' = "upstream"
    /\ UNCHANGED <<rules, reqPath, arg, ret, cur, parked, idx, executedPre, terminatedInPre,
                   matchedNonDefaultPre, preTerminated, flushed, upStep>>

\* the upstream step (lines 1348-1354)
UpstreamStep ==
    /\ pc = "upstream"
    /\ LET act == UpstreamDecision(RM, hasError)
       IN /\ upStep' = [act |-> act, hadStatus |-> HasStatus(RM)]
          /\ CASE act = "error500" ->
                    /\ status' = StatusInternalServerError
                    /\ UNCHANGED <<upCalls, trace>>
               [] act = "upstream" -> \E s \in Up(RM) : SetRM(s)
               [] act = "skipped" -> UNCHANGED <<status, upCalls, trace>>
    /\ pc' = IF NumNonDefault > 0 THEN "post" ELSE "defaultPost"
    /\ UNCHANGED <<rules, reqPath, arg, ret, cur, parked, idx, executedPre, terminatedInPre,
                   matchedNonDefaultPre, preTerminated, hasError,
                   defaultExecutedPre, defaultTerminatedInPre, errs, flushed,
                   checked, listRuns>>

\* one iteration of the loop over the rules that executed in pre (lines 1356-1371)
PostRule ==
    /\ pc = "post"
    /\ LET d == nonDefaultRules(rules)[idx]
       IN IF RunsPost(idx)
          THEN /\ CountRun(d, "post")
               /\ \E o \in execPostCommand(rules[d].Do, RM, Ctx(d, "post", "post", "post")) :
                    /\ SetRM(o.st)
                    /\ AppendError(o.err)
                    /\ AfterPostErr(o.err, "post", "defaultPost")
          ELSE /\ UNCHANGED <<status, errs, upCalls, trace, listRuns>>
               /\ LoopNext("post", "defaultPost")
    /\ UNCHANGED <<rules, reqPath, arg, ret, cur, parked, executedPre, terminatedInPre,
                   matchedNonDefaultPre, preTerminated, hasError,
                   defaultExecutedPre, defaultTerminatedInPre, flushed, upStep,
                   checked>>

\* the default rule's post commands (lines 1372-1379)
DefaultPost ==
    /\ pc = "defaultPost"
    /\ IF RunsDefaultPost
       THEN /\ CountRun(defaultRule(rules), "post")
            /\ \E o \in execPostCommand(rules[defaultRule(rules)].Do, RM,
                                        Ctx(defaultRule(rules), "post", "defaultPost", "post")) :
                 /\ SetRM(o.st)
                 /\ AppendError(o.err)
       ELSE UNCHANGED <<status, errs, upCalls, trace, listRuns>>
    /\ pc' = IF NumNonDefault > 0 THEN "postMatch" ELSE "flush"
    /\ UNCHANGED <<rules, reqPath, arg, ret, cur, parked, idx, executedPre, terminatedInPre,
                   matchedNonDefaultPre, preTerminated, hasError,
                   defaultExecutedPre, defaultTerminatedInPre, flushed, upStep,
                   checked>>

\* one iteration of the post-matcher loop (lines 1381-1406): the rule's pre
\* list, then, unless that terminated, its post list
PostMatcherRule ==
    /\ pc = "postMatch"
    /\ LET d == nonDefaultRules(rules)[idx]
           rule == rules[d]
       IN /\ checked' = IF IsPostRule(rule.On.phase)
                        THEN [checked EXCEPT ![d] = IF OnCheck(rule.On, RM, reqPath)
                                                    THEN "matched" ELSE "unmatched"]
                        ELSE checked
          /\ IF RunsPostMatcher(rule, RM)
             THEN \E o1 \in execPreCommand(rule.Do, RM, Ctx(d, "post", "postMatch", "pre")) :
                    IF o1.err = "terminate"
                    THEN /\ SetRM(o1.st)
                         /\ errs' = errs
                         /\ listRuns' = [listRuns EXCEPT ![d]["pre"] = @ + 1]
                         /\ AfterPostErr(o1.err, "postMatch", "flush")
                    ELSE \E o2 \in execPostCommand(rule.Do, o1.st, Ctx(d, "post", "postMatch", "post")) :
                           /\ SetRM(o2.st)
                           /\ errs' = errs
                                + (IF o1.err = "error" /\ isUnexpectedError(o1.err) THEN 1 ELSE 0)
                                + (IF o2.err = "error" /\ isUnexpectedError(o2.err) THEN 1 ELSE 0)
                           /\ listRuns' = [listRuns EXCEPT ![d]["pre"] = @ + 1,
                                                           ![d]["post"] = @ + 1]
                           /\ AfterPostErr(o2.err, "postMatch", "flush")
             ELSE /\ UNCHANGED <<status, errs, upCalls, trace, listRuns>>
                  /\ LoopNext("postMatch", "flush")
    /\ UNCHANGED <<rules, reqPath, arg, ret, cur, parked, executedPre, terminatedInPre,
                   matchedNonDefaultPre, preTerminated, hasError,
                   defaultExecutedPre, defaultTerminatedInPre, flushed, upStep>>

\* the deferred rm.FlushRelease (lines 1289-1293)
FlushRelease ==
    /\ pc = "flush"
    /\ flushed' = flushed + 1
    /\ pc' = "done"
    /\ UNCHANGED <<rules, reqPath, arg, ret, cur, parked, idx, executedPre, terminatedInPre,
                   matchedNonDefaultPre, preTerminated, hasError,
                   defaultExecutedPre, defaultTerminatedInPre, status, errs,
                   upCalls, trace, upStep, checked, listRuns>>

Next ==
    \/ ServeDirect
    \/ PreRule
    \/ DefaultPre
    \/ UpstreamStep
    \/ PostRule
    \/ DefaultPost
    \/ PostMatcherRule
    \/ FlushRelease

Spec == Init /\ [][Next]_vars

----------------------------------------------------------------------------
(* Vocabulary of the properties, read off the history of the request *)

TraceIdx == 1..Len(trace)

\* the request went through the handler closure and the handler returned
Finished == pc = "done" /\ flushed = 1

RequestPhase(d) == ~IsPostRule(rules[d].On.phase)

\* the non-default rules with a request-phase condition that matched
MatchedNonDefault ==
    {d \in 1..Len(rules) :
        ~isDefaultRule(rules[d]) /\ RequestPhase(d) /\ checked[d] = "matched"}

\* some command of rule d returned errTerminateRule while the pre phase ran
TerminatedInPrePhase(d) ==
    \E k \in TraceIdx :
        trace[k].rule = d /\ trace[k].stage = "pre" /\ trace[k].err = "terminate"

\* rule d executed in the pre phase: a matched request-phase rule that was
\* reached before any pre termination or has no pre commands, or the default
\* rule when it ran as the fallback
ExecutedInPrePhase(d) ==
    /\ RequestPhase(d)
    /\ checked[d] = "matched"
    /\ \/ Len(rules[d].Do.pre) = 0
       \/ \A e \in 1..(d - 1) : ~TerminatedInPrePhase(e)

\* how often the plain command at top-level position p of rule d's body ran
TimesRun(d, p) ==
    Cardinality({k \in TraceIdx : trace[k].rule = d /\ trace[k].pos = <<p>>})

IsPlain(d, p) == rules[d].Do.raw[p].kind = "cmd"

PostPositions(d) == {rules[d].Do.post[k] : k \in 1..Len(rules[d].Do.post)}

\* an earlier entry of rule d's post list returned an error or errTerminateRule
PostCutBefore(d, p) ==
    \E k \in TraceIdx :
        /\ trace[k].rule = d
        /\ trace[k].list = "post"
        /\ trace[k].pos[1] < p
        /\ trace[k].err # "nil"

\* rule d's post commands, if it has any, were run once: its post list was
\* run one time, from its start, up to its first error
PostListRanOnce(d) ==
    Len(rules[d].Do.post) > 0 =>
    /\ listRuns[d].post = 1
    /\ \A p \in PostPositions(d) :
          IsPlain(d, p) => TimesRun(d, p) = (IF PostCutBefore(d, p) THEN 0 ELSE 1)

\* positions of one list: declaration order, also inside a nested block
PosBefore(p, q) ==
    \/ p[1] < q[1]
    \/ /\ p[1] = q[1]
       /\ Len(p) = 3
       /\ Len(q) = 3
       /\ p[2] = q[2]
       /\ p[3] < q[3]

----------------------------------------------------------------------------
(* The properties *)

\* C1: the default rule's commands (pre and post) execute only if no
\* non-default rule with a request-phase condition matched the request; if
\* one matched, neither list of the default rule is run.
C1_DefaultRuleIsFallback ==
    \A d \in 1..Len(rules) :
        (isDefaultRule(rules[d]) /\ MatchedNonDefault # {}) =>
            /\ listRuns[d] = [pre |-> 0, post |-> 0]
            /\ \A k \in TraceIdx : trace[k].rule # d

\* a request with a default rule that a matching non-default rule suppressed
C1_Witness ==
    /\ Finished
    /\ defaultRule(rules) # 0
    /\ RequestPhase(defaultRule(rules))
    /\ MatchedNonDefault # {}

\* C2: once a command signals termination during the pre phase, no further
\* pre command executes: not the rest of the terminating rule's pre list, not
\* the pre list of a later request-phase rule, not that of the default rule.
C2_NoPreCommandAfterPreTermination ==
    \A j, k \in TraceIdx :
        (j < k /\ trace[j].stage = "pre" /\ trace[j].err = "terminate") =>
            trace[k].loop \notin {"pre", "defaultPre"}

\* a terminating rule with pre commands left over, followed by a matching
\* request-phase rule that has pre commands
C2_Witness ==
    /\ Finished
    /\ \E j \in TraceIdx :
          /\ trace[j].stage = "pre"
          /\ trace[j].err = "terminate"
          /\ \E p \in 1..Len(rules[trace[j].rule].Do.pre) :
                rules[trace[j].rule].Do.pre[p] > trace[j].pos[1]
          /\ \E d \in MatchedNonDefault :
                d > trace[j].rule /\ Len(rules[d].Do.pre) > 0

\* C3: the upstream step calls the upstream handler only if the pre phase
\* did not terminate: whenever some pre command signalled termination, the
\* upstream step does not call the upstream handler.
C3_NoUpstreamAfterPreTermination ==
    (\E d \in 1..Len(rules) : TerminatedInPrePhase(d)) => upStep.act # "upstream"

\* some command returned an error other than errTerminateRule in the pre phase
HasPreError ==
    \E k \in TraceIdx : trace[k].stage = "pre" /\ trace[k].err = "error"

\* upstream calls made by the upstream step itself, not by a command
StepUpCalls ==
    upCalls - Cardinality({k \in TraceIdx : trace[k].name = CommandUpstream})

\* the state right after the upstream step
JustAfterUpstreamStep ==
    \/ pc = "post" /\ idx = 1
    \/ pc = "defaultPost" /\ NumNonDefault = 0

C5_MatchedRulePostListRunsOnce ==
    Finished =>
        \A d \in MatchedNonDefault :
            ~TerminatedInPrePhase(d) => PostListRanOnce(d)

\* C5, amended: every rule that executed in the pre phase (it matched and was
\* not passed over because an earlier rule had terminated, or it is the
\* default rule running as the fallback) and did not terminate there has its
\* post commands run exactly once.
C5_ExecutedRulePostListRunsOnce ==
    Finished =>
        \A d \in 1..Len(rules) :
            ((~isDefaultRule(rules[d]) \/ d = defaultRule(rules))
             /\ ExecutedInPrePhase(d) /\ ~TerminatedInPrePhase(d)) =>
                PostListRanOnce(d)

\* a rule that ran its pre commands without terminating and has post commands
C5_Witness ==
    /\ Finished
    /\ \E d \in MatchedNonDefault :
          /\ ExecutedInPrePhase(d)
          /\ ~TerminatedInPrePhase(d)
          /\ Len(rules[d].Do.pre) > 0
          /\ Len(rules[d].Do.post) > 0
          /\ \E k \in TraceIdx : trace[k].rule = d /\ trace[k].list = "post"

\* the matching post-only rules met after a pre termination
PostOnlyAfterTermination ==
    {d \in MatchedNonDefault :
        /\ \E e \in 1..(d - 1) : TerminatedInPrePhase(e)
        /\ Len(rules[d].Do.pre) = 0
        /\ Len(rules[d].Do.post) > 0}

\* C6: after some rule terminated in the pre phase, a later request-phase
\* rule that matches and has only post commands still has its post commands
\* executed, in the post phase.
C6_PostOnlyRuleSurvivesTermination ==
    Finished =>
        \A d \in PostOnlyAfterTermination :
            /\ PostListRanOnce(d)
            /\ \A k \in TraceIdx : trace[k].rule = d => trace[k].stage = "post"

C6_Witness ==
    /\ Finished
    /\ \E d \in PostOnlyAfterTermination :
          \E k \in TraceIdx : trace[k].rule = d /\ trace[k].list = "post"

\* C7: if a rule's pre commands end with the termination signal, none of
\* that rule's own post commands is executed.
C7_TerminatedRuleRunsNoPost ==
    \A j \in TraceIdx :
        (trace[j].list = "pre" /\ trace[j].err = "terminate") =>
            /\ listRuns[trace[j].rule].post = 0
            /\ \A k \in TraceIdx :
                  trace[k].rule = trace[j].rule => trace[k].list # "post"

\* a rule with post commands whose pre list terminated
C7_Witness ==
    /\ Finished
    /\ \E j \in TraceIdx :
          /\ trace[j].list = "pre"
          /\ trace[j].err = "terminate"
          /\ Len(rules[trace[j].rule].Do.post) > 0

\* the response-phase rules of the post-matcher loop all had their turn
PostMatchersAllServed ==
    \A d \in 1..Len(rules) :
        (~isDefaultRule(rules[d]) /\ ~RequestPhase(d)) =>
            /\ checked[d] # "unchecked"
            /\ checked[d] = "matched" => listRuns[d].pre = 1
            /\ checked[d] = "unmatched" => listRuns[d] = [pre |-> 0, post |-> 0]

\* the rules scheduled by the pre phase all had their post list run
ScheduledPostAllServed ==
    \A d \in 1..Len(rules) :
        ((~isDefaultRule(rules[d]) \/ d = defaultRule(rules))
         /\ ExecutedInPrePhase(d) /\ ~TerminatedInPrePhase(d)) =>
            listRuns[d].post = 1

\* C8: a termination signal raised in the post phase stops only the rest of
\* that rule's commands: the post lists of the later rules and the later
\* response-condition rules are still evaluated and executed.
C8_PostTerminationEndsOnlyItsRule ==
    Finished =>
        \A j \in TraceIdx :
            (trace[j].stage = "post" /\ trace[j].err = "terminate") =>
                /\ \A k \in TraceIdx : k > j => trace[k].rule # trace[j].rule
                /\ ScheduledPostAllServed
                /\ PostMatchersAllServed

\* a rule terminated in the post phase and a later rule ran commands after it
C8_Witness ==
    /\ Finished
    /\ \E j, k \in TraceIdx :
          /\ j < k
          /\ trace[j].stage = "post"
          /\ trace[j].err = "terminate"
          /\ trace[k].rule # trace[j].rule

\* C9 as stated: if rule A is declared before rule B, every command of A
\* that executes in the pre phase (in the post phase) does so before every
\* command of B that executes in that phase.
C9_RulesInDeclarationOrder ==
    \A j, k \in TraceIdx :
        (j < k /\ trace[j].stage = trace[k].stage) =>
            trace[j].rule <= trace[k].rule

\* C9, amended: the same, for two rules that are both request-phase rules or
\* both response-phase rules; in the post phase the post commands of the
\* request-phase rules all run before the commands of the response-phase rules.
C9_RulesInDeclarationOrderPerKind ==
    \A j, k \in TraceIdx :
        (j < k /\ trace[j].stage = trace[k].stage) =>
            IF RequestPhase(trace[j].rule) = RequestPhase(trace[k].rule)
            THEN trace[j].rule <= trace[k].rule
            ELSE RequestPhase(trace[j].rule)

\* two rules of the same kind both ran commands in the same phase
C9_Witness ==
    /\ Finished
    /\ \E j, k \in TraceIdx :
          /\ j < k
          /\ trace[j].stage = trace[k].stage
          /\ trace[j].rule # trace[k].rule
          /\ RequestPhase(trace[j].rule) = RequestPhase(trace[k].rule)

----------------------------------------------------------------------------
(* Errors other than the termination signal in the pre phase *)

\* rule e failed in the pre phase: one of its commands returned an error
\* other than errTerminateRule
FailedInPrePhase(e) ==
    \E k \in TraceIdx :
        trace[k].rule = e /\ trace[k].stage = "pre" /\ trace[k].err = "error"

\* the matching non-default request-phase rules declared after a rule that
\* failed in the pre phase and reached before any pre termination
MatchedAfterPreError ==
    {d \in MatchedNonDefault :
        /\ \E e \in 1..(d - 1) : FailedInPrePhase(e)
        /\ \A e \in 1..(d - 1) : ~TerminatedInPrePhase(e)}

\* C11: a pre command error other than the termination signal sets the error
\* flag and does not stop the pipeline: every later matching request-phase
\* rule still has its pre commands run in the same request.
C11_PreErrorDoesNotStopPipeline ==
    /\ HasPreError => hasError
    /\ Finished => \A d \in MatchedAfterPreError : listRuns[d].pre = 1

\* a rule whose log command failed, followed by a matching rule whose pre
\* command ran
C11_Witness ==
    /\ Finished
    /\ hasError
    /\ \E d \in MatchedAfterPreError :
          \E k \in TraceIdx :
              /\ trace[k].rule = d
              /\ trace[k].stage = "pre"
              /\ \E j \in 1..(k - 1) : trace[j].err = "error" /\ trace[j].rule < d

----------------------------------------------------------------------------
(* Exit paths of the returned handler.  The closure registers
   rm.FlushRelease with defer before anything else (lines 1288-1293), so
   the call runs when the closure returns and also when a command, a
   condition or the upstream handler panics: the panic unwinds the closure,
   runs the deferred call and leaves the closure for good. *)

RunningPcs == {"pre", "default", "upstream", "post", "defaultPost", "postMatch"}

\* the closure has been left by a panic without running its deferred call
Panic_NoDefer ==
    /\ pc \in RunningPcs
    /\ pc' = "panicked"
    /\ UNCHANGED <<rules, reqPath, arg, ret, cur, parked, idx, executedPre, terminatedInPre,
                   matchedNonDefaultPre, preTerminated, hasError,
                   defaultExecutedPre, defaultTerminatedInPre, status, errs,
                   upCalls, flushed, trace, upStep, checked, listRuns>>

\* a panic inside the closure: the deferred rm.FlushRelease runs while the
\* stack unwinds (lines 1289-1293), nothing after the panicking call runs
Panic ==
    /\ pc \in RunningPcs
    /\ pc' = "panicked"
    /\ flushed' = flushed + 1
    /\ UNCHANGED <<rules, reqPath, arg, ret, cur, parked, idx, executedPre, terminatedInPre,
                   matchedNonDefaultPre, preTerminated, hasError,
                   defaultExecutedPre, defaultTerminatedInPre, status, errs,
                   upCalls, trace, upStep, checked, listRuns>>

NextPanic ==
    \/ Next
    \/ Panic

SpecPanic == Init /\ [][NextPanic]_vars

\* the closure has been left, by return or by panic
Exited == pc \in {"done", "panicked"}

\* C12: for a request served by the rule handler (the closure, not the bare
\* upstream handler that BuildHandler returns for an empty rule set),
\* FlushRelease has been invoked exactly once when the closure has been left,
\* whichever way it was left, and not at all before; once it has been
\* invoked no command runs, the upstream handler is not called and the
\* response is not changed.
C12_FlushReleaseExactlyOnce ==
    /\ [](~ReturnsUp(rules) => flushed = (IF Exited THEN 1 ELSE 0))
    /\ [][flushed >= 1 => UNCHANGED <<trace, upCalls, status, errs>>]_vars

C12_Witness ==
    /\ pc = "panicked"
    /\ flushed = 1
    /\ Len(trace) > 0
    /\ \E k \in TraceIdx : trace[k].stage = "post"

----------------------------------------------------------------------------
(* Rules.Validate and the canonical matcher signature                      *)

\* canonOr of matcherSignature (part_008:1127-1137), sorted and compacted;
\* ok is false for the early return on an atom that does not parse
canonOr(andPart) ==
    LET text(atoms) ==
            IF \E k \in 1..Len(atoms) : atoms[k].err # {} \/ atoms[k].subject = <<>>
            THEN [ok |-> FALSE, ors |-> <<>>]
            ELSE [ok |-> TRUE,
                  ors |-> SortCompact([k \in 1..Len(atoms) |->
                     atoms[k].subject \o <<" ">> \o Join(atoms[k].args, <<NUL>>)])]
        parsed(orParts) == [k \in 1..Len(orParts) |-> parse(TrimSpace(orParts[k]))]
    IN text(parsed(splitPipe(andPart)))

\* matcherSignature (part_008:1111-1147): [sig, ok]
matcherSignature(raw) ==
    LET wrap(ors) == <<"(">> \o Join(ors, <<"|">>) \o <<")">>
        joinAnd(canonAnd) ==
            IF canonAnd = <<>> THEN [sig |-> <<>>, ok |-> FALSE]
            ELSE [sig |-> Join(canonAnd, <<"&">>), ok |-> TRUE]
        canon(ors) ==
            IF \E k \in 1..Len(ors) : ~ors[k].ok
            THEN [sig |-> <<>>, ok |-> FALSE]
            ELSE joinAnd(SortCompact([k \in 1..Len(ors) |-> wrap(ors[k].ors)]))
        each(andParts) ==
            IF andParts = <<>> THEN [sig |-> <<>>, ok |-> FALSE]
            ELSE canon([k \in 1..Len(andParts) |-> canonOr(andParts[k])])
        from(trimmed) ==
            IF trimmed = <<>> THEN [sig |-> <<"(", "a", "n", "y", ")">>, ok |-> TRUE]
            ELSE each(SelectSeq(splitAnd(trimmed), LAMBDA p : splitPipe(p) # <<>>))
    IN from(TrimSpace(raw))

\* a ruleOnAlwaysTrue that takes every condition for always true
ruleOnAlwaysTrue_AnyCondition(on) == TRUE

\* ruleOnAlwaysTrue (part_008:1107-1109); the checker is nil for the zero
\* RuleOn, whose raw is empty
ruleOnAlwaysTrue(on) ==
    TrimSpace(on.raw) = OnDefault \/ on.raw = <<>>

RECURSIVE commandTerminatesInPre(_)

\* commandsTerminateInPre (part_008:1065-1067)
commandsTerminateInPre(cmds) ==
    \E k \in 1..Len(cmds) : commandTerminatesInPre(cmds[k])

\* ifElseBlockTerminatesInPre (part_008:1088-1105)
ifElseBlockTerminatesInPre(cmd) ==
    /\ \A b \in 1..Len(cmd.Ifs) : commandsTerminateInPre(cmd.Ifs[b].Do)
    /\ \/ Len(cmd.Else) > 0
       \/ \E b \in 1..Len(cmd.Ifs) : ruleOnAlwaysTrue(cmd.Ifs[b].On)
    /\ Len(cmd.Else) > 0 => commandsTerminateInPre(cmd.Else)

\* commandTerminatesInPre (part_008:1069-1086)
commandTerminatesInPre(cmd) ==
    CASE cmd.kind = "cmd" -> commands[cmd.name].terminate
      [] cmd.kind = "if" ->
            ruleOnAlwaysTrue(cmd.Ifs[1].On) /\ commandsTerminateInPre(cmd.Ifs[1].Do)
      [] cmd.kind = "ifelse" -> ifElseBlockTerminatesInPre(cmd)

\* Rule.doesTerminateInPre (part_008:1061-1063)
doesTerminateInPre(rule) ==
    commandsTerminateInPre([k \in 1..Len(rule.Do.pre) |-> rule.Do.raw[rule.Do.pre[k]]])

\* a Validate that counts a rule once for its name and once for its condition
defaultRulesFound_CountsBoth(rs) ==
    SelectSeq([i \in 1..Len(rs) |-> i], LAMBDA i : rs[i].Name = "default")
        \o SelectSeq([i \in 1..Len(rs) |-> i], LAMBDA i : rs[i].On.raw = OnDefault)

\* defaultRulesFound of Validate (part_008:1023-1033)
defaultRulesFound(rs) ==
    SelectSeq([i \in 1..Len(rs) |-> i], LAMBDA i : isDefaultRule(rs[i]))

\* the second loop of Validate (part_008:1037-1056): does it reach the
\* return of ErrDeadRule for the pair (i, j)
shadows(rs, i, j) ==
    LET same(sig1, sig2) == sig1.ok /\ sig2.ok /\ sig1.sig = sig2.sig
        pair(r1, r2) ==
            /\ ~(isDefaultRule(r1) \/ IsPostRule(r1.On.phase) \/ ~doesTerminateInPre(r1))
            /\ ~(isDefaultRule(r2) \/ IsPostRule(r2.On.phase))
            /\ same(matcherSignature(r1.On.raw), matcherSignature(r2.On.raw))
    IN pair(rs[i], rs[j])

\* a Validate without the dead-rule loop
Validate_DefaultsOnly(rs) ==
    LET result(found) ==
            [err |-> IF found > 1 THEN "ErrMultipleDefaultRules" ELSE "nil",
             found |-> found]
    IN result(Len(defaultRulesFound(rs)))

\* Rules.Validate (part_008:1022-1059): the error returned and the number
\* of default rules found
Validate(rs) ==
    LET result(found) ==
            [err |-> IF found > 1 THEN "ErrMultipleDefaultRules"
                     ELSE IF \E i \in 1..Len(rs) : \E j \in (i + 1)..Len(rs) :
                                 shadows(rs, i, j)
                          THEN "ErrDeadRule"
                     ELSE "nil",
             found |-> found]
    IN result(Len(defaultRulesFound(rs)))

\* a condition that repeats a segment
OnPathTwice == <<"p", "a", "t", "h", " ", "/", " ", "&", " ", "p", "a", "t", "h", " ", "/">>

\* the rule sets handed to Validate: the catalogue of the executor, rules
\* whose condition repeats a segment, and a rule that is default twice over
ValidateCatalog ==
    RuleCatalog
    \cup {Rule("", OnPathTwice, body) :
              body \in {<<Handler(CommandSetHeader)>>, <<Handler(CommandUpstream)>>}}
    \cup {Rule("default", OnDefault, <<Handler(CommandSetHeader)>>)}

ValidateRuleSets == UNION {[1..n -> ValidateCatalog] : n \in 0..MaxRules}

\* the closure locals of the handler, and the scheduling of requests
handlerVars ==
    <<rules, reqPath, pc, idx, executedPre, terminatedInPre,
      matchedNonDefaultPre, preTerminated, hasError, defaultExecutedPre,
      defaultTerminatedInPre, status, errs, upCalls, flushed, trace, upStep,
      checked, listRuns, cur, parked>>

\* no request is in the handler: the rules are still being parsed
NoRequest ==
    /\ rules = <<>>
    /\ reqPath = FALSE
    /\ pc = "parsing"
    /\ idx = 1
    /\ executedPre = <<>>
    /\ terminatedInPre = <<>>
    /\ matchedNonDefaultPre = FALSE
    /\ preTerminated = FALSE
    /\ hasError = FALSE
    /\ defaultExecutedPre = FALSE
    /\ defaultTerminatedInPre = FALSE
    /\ status = 0
    /\ errs = 0
    /\ upCalls = 0
    /\ flushed = 0
    /\ trace = <<>>
    /\ upStep = [act |-> "pending", hadStatus |-> FALSE]
    /\ checked = <<>>
    /\ listRuns = <<>>
    /\ cur = 1
    /\ parked = <<>>

InitValidate ==
    /\ NoRequest
    /\ arg \in {[fn |-> "Validate", rules |-> rs] : rs \in ValidateRuleSets}
    /\ ret = NoCall

\* rules.Validate()
CallValidate ==
    /\ arg.fn = "Validate"
    /\ ret = NoCall
    /\ ret' = [fn |-> "Validate"] @@ Validate(arg.rules)
    /\ UNCHANGED <<arg, handlerVars>>

SpecValidate == InitValidate /\ [][CallValidate]_vars

\* Validate has returned for the rule set arg.rules
Validated == arg.fn = "Validate" /\ ret.fn = "Validate"

\* the conditions of rules i and j have the same canonical signature
SameSignature(rs, i, j) ==
    LET same(s1, s2) == s1.ok /\ s2.ok /\ s1.sig = s2.sig
    IN same(matcherSignature(rs[i].On.raw), matcherSignature(rs[j].On.raw))

\* C13 as stated: an accepted rule set has no pair i < j of rules with the
\* same canonical signature of which the first terminates in pre.
C13_NoShadowedRuleAccepted ==
    (Validated /\ ret.err = "nil") =>
        ~\E i \in 1..Len(arg.rules) : \E j \in (i + 1)..Len(arg.rules) :
            SameSignature(arg.rules, i, j) /\ doesTerminateInPre(arg.rules[i])

\* C13: an accepted rule set has no pair i < j of non-default rules with
\* request-phase conditions that have the same canonical signature and of
\* which the first terminates in pre.
C13_NoShadowedRequestRuleAccepted ==
    (Validated /\ ret.err = "nil") =>
        ~\E i \in 1..Len(arg.rules) : \E j \in (i + 1)..Len(arg.rules) :
            /\ SameSignature(arg.rules, i, j)
            /\ doesTerminateInPre(arg.rules[i])
            /\ \A k \in {i, j} :
                  /\ arg.rules[k].Name # "default"
                  /\ arg.rules[k].On.raw # OnDefault
                  /\ ~IsPostRule(arg.rules[k].On.phase)

C13_Witness ==
    /\ Validated
    /\ ret.err = "nil"
    /\ Len(arg.rules) = 2
    /\ arg.rules[1].On.raw = OnPathTwice /\ arg.rules[2].On.raw = OnPath
    /\ SameSignature(arg.rules, 1, 2)
    /\ ~doesTerminateInPre(arg.rules[1])
    /\ doesTerminateInPre(arg.rules[2])

\* C14: Validate returns the multiple-default-rules error exactly when more
\* than one rule of the set is a default rule, a rule being default when its
\* Name is "default" or its raw On is "default" and counting once when both
\* hold; with no or one default rule the set passes this check.
C14_MultipleDefaultRules ==
    Validated =>
        LET defaults == {i \in 1..Len(arg.rules) :
                            arg.rules[i].Name = "default" \/ arg.rules[i].On.raw = OnDefault}
        IN /\ ret.err = "ErrMultipleDefaultRules" <=> Cardinality(defaults) > 1
           /\ ret.found = Cardinality(defaults)

C14_Witness ==
    /\ Validated
    /\ Len(arg.rules) = 2
    /\ arg.rules[1].Name = "default" /\ arg.rules[1].On.raw = OnDefault
    /\ arg.rules[2].Name = "" /\ arg.rules[2].On.raw = OnPath
    /\ ret.err # "ErrMultipleDefaultRules"

----------------------------------------------------------------------------
(* Conditions that differ only in formatting                               *)

MaxAtoms == 2

OnMethod == <<"m", "e", "t", "h", "o", "d", " ", "G", "E", "T">>

\* the atoms the conditions are built from
Atoms == {OnPath, OnMethod, OnStatus4xx}

\* a condition as its AND segments, each the sequence of its OR atoms:
\* atoms joined by the connectives of ops, '|' binding tighter than '&'
Segments(atoms, ops) ==
    LET RECURSIVE build(_, _, _)
        build(k, done, open) ==
            IF k > Len(atoms) THEN Append(done, open)
            ELSE IF ops[k - 1] = "|"
                 THEN build(k + 1, done, Append(open, atoms[k]))
                 ELSE build(k + 1, Append(done, open), <<atoms[k]>>)
    IN build(2, <<>>, <<atoms[1]>>)

Conditions ==
    UNION {{Segments(atoms, ops) :
                atoms \in [1..n -> Atoms], ops \in [1..(n - 1) -> {"|", "&"}]} :
           n \in 1..MaxAtoms}

\* the ways of writing a condition down again
Rewritings ==
    {"same", "reverse-and", "reverse-or", "repeat-and", "repeat-or",
     "newline", "spaces", "all"}

\* the text of a condition: and is the AND separator, pad the white space
\* put around every atom
Render(segs, and, pad) ==
    LET atom(a) == pad \o a \o pad
        seg(s) == Join([k \in 1..Len(s) |-> atom(s[k])], <<"|">>)
    IN Join([k \in 1..Len(segs) |-> seg(segs[k])], and)

\* the condition segs written down again in the way w
Rewrite(segs, w) ==
    LET both == w = "all"
        ors(s) == IF w = "reverse-or" \/ both THEN Reverse(s) ELSE s
        more(s) == IF w = "repeat-or" \/ both THEN Append(s, s[1]) ELSE s
        inner == [k \in 1..Len(segs) |-> more(ors(segs[k]))]
        ands(e) == IF w = "reverse-and" \/ both THEN Reverse(e) ELSE e
        again(e) == IF w = "repeat-and" \/ both THEN Append(e, e[1]) ELSE e
    IN Render(again(ands(inner)),
              IF w = "newline" \/ both THEN <<"\n">> ELSE <<"&">>,
              IF w = "spaces" \/ both THEN <<" ">> ELSE <<>>)

InitSignature ==
    /\ NoRequest
    /\ arg \in {[fn |-> "matcherSignature",
                 a |-> Render(segs, <<" ", "&", " ">>, <<>>),
                 b |-> Rewrite(segs, w),
                 first |-> body] :
                    segs \in Conditions, w \in Rewritings,
                    body \in {<<Handler(CommandError)>>, <<Handler(CommandSetHeader)>>}}
    /\ ret = NoCall

\* the two conditions head two rules, the first with the body arg.first;
\* their signatures are computed and the rule set is validated
CallSignature ==
    /\ arg.fn = "matcherSignature"
    /\ ret = NoCall
    /\ ret' = [fn |-> "matcherSignature",
               a |-> matcherSignature(arg.a),
               b |-> matcherSignature(arg.b),
               rules |-> <<Rule("", arg.a, arg.first),
                           Rule("", arg.b, <<Handler(CommandSetHeader)>>)>>,
               err |-> Validate(<<Rule("", arg.a, arg.first),
                                  Rule("", arg.b, <<Handler(CommandSetHeader)>>)>>).err]
    /\ UNCHANGED <<arg, handlerVars>>

SpecSignature == InitSignature /\ [][CallSignature]_vars

\* the signatures of two conditions that differ only in formatting have
\* been computed
Signed == arg.fn = "matcherSignature" /\ ret.fn = "matcherSignature"

\* C15 as stated: two conditions that differ only in the order of their AND
\* segments or of the OR atoms of a segment, in repeated segments or atoms,
\* in newline for & or in white space have the same signature, and Validate
\* returns the dead-rule error when the first of the two rules terminates
\* in pre.
C15_FormattingVariantsShadow ==
    Signed =>
        /\ ret.a.ok /\ ret.b.ok /\ ret.a.sig = ret.b.sig
        /\ doesTerminateInPre(ret.rules[1]) => ret.err = "ErrDeadRule"

\* C15: two conditions that differ only in formatting have the same
\* signature; when both rules are non-default rules with request-phase
\* conditions, Validate returns the dead-rule error if the first terminates
\* in pre and accepts the pair if it does not.
C15_FormattingVariantsShadowRequestRules ==
    Signed =>
        /\ ret.a.ok /\ ret.b.ok /\ ret.a.sig = ret.b.sig
        /\ (\A k \in 1..2 : ~isDefaultRule(ret.rules[k]) /\ ~IsPostRule(ret.rules[k].On.phase))
              => (ret.err = "ErrDeadRule" <=> doesTerminateInPre(ret.rules[1]))

C15_Witness ==
    /\ Signed
    /\ arg.a = <<"p", "a", "t", "h", " ", "/", " ", "&", " ", "m", "e", "t", "h", "o", "d", " ", "G", "E", "T">>
    /\ arg.b = <<" ", "m", "e", "t", "h", "o", "d", " ", "G", "E", "T", " ", "|", " ", "m", "e", "t", "h", "o", "d", " ", "G", "E", "T", " ", "\n", " ", "p", "a", "t", "h", " ", "/", " ", "|", " ", "p", "a", "t", "h", " ", "/", " ", "\n", " ", "m", "e", "t", "h", "o", "d", " ", "G", "E", "T", " ", "|", " ", "m", "e", "t", "h", "o", "d", " ", "G", "E", "T", " ">>
    /\ ret.a.sig = <<"(", "m", "e", "t", "h", "o", "d", " ", "G", "E", "T", ")", "&", "(", "p", "a", "t", "h", " ", "/", ")">>
    /\ ret.err = "ErrDeadRule"

----------------------------------------------------------------------------
(* if / elif / else chains (IfElseBlockCommand.ServeHTTP) *)

MaxBranches == 2

\* the conditions of a branch: none (a nil checker), a request condition
\* and a response condition
BranchOns == {RuleOn(<<>>), RuleOn(OnPath), RuleOn(OnStatus4xx)}

\* the bodies of a branch and of else: nil, and lists of handlers that
\* return nil, terminate, or may fail
BranchBodies ==
    { <<>>,
      <<Handler(CommandSetHeader)>>,
      <<Handler(CommandSetHeader), Handler(CommandError), Handler(CommandSetRespHeader)>>,
      <<Handler(CommandLog), Handler(CommandSetRespHeader)>> }

Chains ==
    {IfElseBlockCommand(ifs, else) :
        ifs \in UNION {[1..n -> [On : BranchOns, Do : BranchBodies]] : n \in 1..MaxBranches},
        else \in BranchBodies}

InitIfElse ==
    /\ NoRequest
    /\ arg \in [fn : {"IfElseBlockCommand.ServeHTTP"}, c : Chains,
                path : BOOLEAN, status : {200, StatusForbidden}]
    /\ ret = NoCall

\* c.ServeHTTP(w, r, upstream) on a response modifier holding arg.status
CallIfElse ==
    /\ arg.fn = "IfElseBlockCommand.ServeHTTP"
    /\ ret = NoCall
    /\ \E o \in ServeHTTP(arg.c, <<1>>,
                           [status |-> arg.status, upCalls |-> 0, trace |-> <<>>],
                           [rule |-> 1, stage |-> "pre", loop |-> "pre", list |-> "pre",
                            path |-> arg.path]) :
           ret' = [fn |-> "IfElseBlockCommand.ServeHTTP", st |-> o.st, err |-> o.err]
    /\ UNCHANGED <<arg, handlerVars>>

SpecIfElse == InitIfElse /\ [][CallIfElse]_vars

\* the chain arg.c has been served
Served == arg.fn = "IfElseBlockCommand.ServeHTTP" /\ ret.fn = "IfElseBlockCommand.ServeHTTP"

\* branch b of the chain matches the request as it arrived
BranchMatches(b) ==
    LET on == arg.c.Ifs[b].On IN
    \/ on.raw = <<>>
    \/ on.raw = OnPath /\ arg.path
    \/ on.raw = OnStatus4xx /\ arg.status \in 400..499

\* the first matching branch; Len(Ifs) + 1, the place of else, when none matches
FirstMatch ==
    LET n == Len(arg.c.Ifs) IN
    IF \E b \in 1..n : BranchMatches(b)
    THEN CHOOSE b \in 1..n : BranchMatches(b) /\ \A a \in 1..(b - 1) : ~BranchMatches(a)
    ELSE n + 1

\* the body at place b of the chain
BodyAt(b) == IF b > Len(arg.c.Ifs) THEN arg.c.Else ELSE arg.c.Ifs[b].Do

\* the trace is a run of body from its first handler on: each handler in
\* order, stopping after the first that returns an error
RunOf(tr, body, b) ==
    /\ Len(tr) <= Len(body)
    /\ \A k \in 1..Len(tr) :
          /\ tr[k].pos = <<1, b, k>>
          /\ tr[k].name = body[k].name
          /\ k < Len(tr) => tr[k].err = "nil"
    /\ \/ Len(tr) = Len(body) /\ (body = <<>> => ret.err = "nil")
       \/ Len(tr) > 0 /\ tr[Len(tr)].err # "nil"
    /\ Len(tr) > 0 => ret.err = tr[Len(tr)].err

\* C16: of an if/elif/else chain exactly the body of the first branch whose
\* condition matches is run; else is run only when no branch matches; a
\* matched branch with an empty body runs nothing and returns nil.
C16_FirstMatchingBranchOnly ==
    Served => RunOf(ret.st.trace, BodyAt(FirstMatch), FirstMatch)

\* the first branch matches with an empty body, a later branch matches with
\* handlers and else has handlers: nothing ran
C16_Witness ==
    /\ Served
    /\ Len(arg.c.Ifs) = 2
    /\ arg.c.Ifs[1].On.raw = OnPath /\ arg.path /\ arg.c.Ifs[1].Do = <<>>
    /\ arg.c.Ifs[2].On.raw = <<>> /\ arg.c.Ifs[2].Do # <<>>
    /\ arg.c.Else # <<>>
    /\ ret.st.trace = <<>> /\ ret.err = "nil"

----------------------------------------------------------------------------
(* Two requests in the handler at once.  The handler closure shares rules, *)
(* nonDefaultRules, defaultRule and up; everything else is declared inside *)
(* the closure, once per call.  The request that is running has its locals *)
(* in the variables, the other one has them saved in parked.               *)

\* the locals of one call of the closure, with its request and its
\* response modifier
View ==
    [reqPath |-> reqPath, pc |-> pc, idx |-> idx, executedPre |-> executedPre,
     terminatedInPre |-> terminatedInPre,
     matchedNonDefaultPre |-> matchedNonDefaultPre, preTerminated |-> preTerminated,
     hasError |-> hasError, defaultExecutedPre |-> defaultExecutedPre,
     defaultTerminatedInPre |-> defaultTerminatedInPre, status |-> status,
     errs |-> errs, upCalls |-> upCalls, flushed |-> flushed, trace |-> trace,
     upStep |-> upStep, checked |-> checked, listRuns |-> listRuns]

\* the locals of a call that has just entered the handler built for rs
Entered(rs) ==
    {[reqPath |-> p,
      pc |-> IF ReturnsUp(rs) THEN "direct"
             ELSE IF Len(nonDefaultRules(rs)) > 0 THEN "pre" ELSE "default",
      idx |-> 1,
      executedPre |-> [i \in 1..Len(nonDefaultRules(rs)) |-> FALSE],
      terminatedInPre |-> [i \in 1..Len(nonDefaultRules(rs)) |-> FALSE],
      matchedNonDefaultPre |-> FALSE, preTerminated |-> FALSE, hasError |-> FALSE,
      defaultExecutedPre |-> FALSE, defaultTerminatedInPre |-> FALSE,
      status |-> 0, errs |-> 0, upCalls |-> 0, flushed |-> 0, trace |-> <<>>,
      upStep |-> [act |-> "pending", hadStatus |-> FALSE],
      checked |-> [d \in 1..Len(rs) |-> "unchecked"],
      listRuns |-> [d \in 1..Len(rs) |-> [pre |-> 0, post |-> 0]]] : p \in BOOLEAN}

\* rules whose commands fail, terminate, depend on the request and on the
\* response
SharedCatalog ==
    { Rule("", OnPath, <<Handler(CommandLog), Handler(CommandSetHeader),
                         Handler(CommandSetRespHeader)>>),
      Rule("", OnPath, <<Handler(CommandError), Handler(CommandSetRespHeader)>>),
      Rule("", OnStatus4xx, <<Handler(CommandSetRespHeader)>>),
      Rule("", OnDefault, <<Handler(CommandRequireAuth), Handler(CommandSetRespHeader)>>) }

SharedRuleSets ==
    {<<a, b>> : a \in SharedCatalog, b \in SharedCatalog}
    \cup {<<Rule("", OnDefault, <<Handler(CommandUpstream)>>)>>}

\* two requests enter the handler built for one rule set
InitShared ==
    /\ \E rs \in SharedRuleSets : Enter(rs) /\ \E v \in Entered(rs) : parked = <<v>>
    /\ arg = NoCall
    /\ ret = NoCall
    /\ cur = 1

\* a scheduler that keeps one error flag for both calls
Switch_SharesErrorFlag ==
    /\ parked[1].pc # "done"
    /\ cur' = 3 - cur
    /\ parked' = <<View>>
    /\ reqPath' = parked[1].reqPath
    /\ pc' = parked[1].pc
    /\ idx' = parked[1].idx
    /\ executedPre' = parked[1].executedPre
    /\ terminatedInPre' = parked[1].terminatedInPre
    /\ matchedNonDefaultPre' = parked[1].matchedNonDefaultPre
    /\ preTerminated' = parked[1].preTerminated
    /\ defaultExecutedPre' = parked[1].defaultExecutedPre
    /\ defaultTerminatedInPre' = parked[1].defaultTerminatedInPre
    /\ status' = parked[1].status
    /\ errs' = parked[1].errs
    /\ upCalls' = parked[1].upCalls
    /\ flushed' = parked[1].flushed
    /\ trace' = parked[1].trace
    /\ upStep' = parked[1].upStep
    /\ checked' = parked[1].checked
    /\ listRuns' = parked[1].listRuns
    /\ UNCHANGED <<rules, arg, ret, hasError>>

\* the running call is suspended between two steps and the other call goes on
Switch ==
    /\ parked[1].pc # "done"
    /\ cur' = 3 - cur
    /\ parked' = <<View>>
    /\ reqPath' = parked[1].reqPath
    /\ pc' = parked[1].pc
    /\ idx' = parked[1].idx
    /\ executedPre' = parked[1].executedPre
    /\ terminatedInPre' = parked[1].terminatedInPre
    /\ matchedNonDefaultPre' = parked[1].matchedNonDefaultPre
    /\ preTerminated' = parked[1].preTerminated
    /\ hasError' = parked[1].hasError
    /\ defaultExecutedPre' = parked[1].defaultExecutedPre
    /\ defaultTerminatedInPre' = parked[1].defaultTerminatedInPre
    /\ status' = parked[1].status
    /\ errs' = parked[1].errs
    /\ upCalls' = parked[1].upCalls
    /\ flushed' = parked[1].flushed
    /\ trace' = parked[1].trace
    /\ upStep' = parked[1].upStep
    /\ checked' = parked[1].checked
    /\ listRuns' = parked[1].listRuns
    /\ UNCHANGED <<rules, arg, ret>>

NextShared ==
    \/ ServeDirect
    \/ PreRule
    \/ DefaultPre
    \/ UpstreamStep
    \/ PostRule
    \/ DefaultPost
    \/ PostMatcherRule
    \/ FlushRelease
    \/ Switch

SpecShared == InitShared /\ [][NextShared]_vars

\* what holds of every request served alone: the flags of the running call
\* are those its own executed commands account for
AsServedAlone ==
    /\ hasError <=> HasPreError
    /\ errs = Cardinality({k \in TraceIdx : trace[k].err = "error"})
    /\ matchedNonDefaultPre <=> MatchedNonDefault # {}
    /\ preTerminated <=> \E i \in 1..Len(terminatedInPre) : terminatedInPre[i]
    /\ \A i \in 1..Len(terminatedInPre) :
          terminatedInPre[i] <=> TerminatedInPrePhase(nonDefaultRules(rules)[i])
    /\ \A i \in 1..Len(executedPre) :
          executedPre[i] => checked[nonDefaultRules(rules)[i]] = "matched"
    /\ \A k \in TraceIdx : checked[trace[k].rule] = "matched"
    /\ defaultTerminatedInPre => defaultExecutedPre

----------------------------------------------------------------------------
(* Rules.Parse: block syntax or YAML *)

\* hasTopLevelLBrace: a '{' outside quotes, backticks and comments
hasTopLevelLBrace(s) ==
    LET n == Len(s)
        RECURSIVE scan(_, _, _, _)
        scan(i, quote, inLine, inBlock) ==
            IF i > n THEN FALSE
            ELSE LET c == s[i]
                     next == IF i < n THEN s[i + 1] ELSE NUL
                 IN IF inLine THEN scan(i + 1, quote, c # "\n", FALSE)
                    ELSE IF inBlock
                    THEN IF c = "*" /\ next = "/"
                         THEN scan(i + 2, quote, FALSE, FALSE)
                         ELSE scan(i + 1, quote, FALSE, TRUE)
                    ELSE IF quote # NUL
                    THEN IF quote # BQ /\ c = BSL /\ i < n
                         THEN scan(i + 2, quote, FALSE, FALSE)
                         ELSE scan(i + 1, IF c = quote THEN NUL ELSE quote, FALSE, FALSE)
                    ELSE CASE c \in quoteChars -> scan(i + 1, c, FALSE, FALSE)
                           [] c = "{" -> TRUE
                           [] c = "#" -> scan(i + 1, NUL, TRUE, FALSE)
                           [] c = "/" /\ next = "/" -> scan(i + 2, NUL, TRUE, FALSE)
                           [] c = "/" /\ next = "*" -> scan(i + 2, NUL, FALSE, TRUE)
                           [] OTHER -> scan(i + 1, NUL, FALSE, FALSE)
    IN scan(1, NUL, FALSE, FALSE)

\* a Rules.Parse that never tries YAML once it has tried the block syntax
RulesParse_BlockOnly(config, block, yaml) ==
    IF TrimSpace(config) = <<>> THEN [syntax |-> "none", err |-> "nil"]
    ELSE IF hasTopLevelLBrace(TrimSpace(config))
    THEN IF block = "ok" THEN [syntax |-> "block", err |-> "nil"]
         ELSE [syntax |-> "none", err |-> "blockErr"]
    ELSE IF yaml = "ok" THEN [syntax |-> "yaml", err |-> "nil"]
    ELSE IF yaml = "convertErr" THEN [syntax |-> "none", err |-> "convertErr"]
    ELSE IF block = "ok" THEN [syntax |-> "block", err |-> "nil"]
    ELSE [syntax |-> "none", err |-> "blockErr"]

\* Rules.Parse; block is what parseBlockRules returns for the input, yaml
\* what yaml.Unmarshal followed by serialization.ConvertSlice returns
RulesParse(config, block, yaml) ==
    IF TrimSpace(config) = <<>> THEN [syntax |-> "none", err |-> "nil"]
    ELSE IF hasTopLevelLBrace(TrimSpace(config)) /\ block = "ok"
    THEN [syntax |-> "block", err |-> "nil"]
    ELSE IF yaml = "ok" THEN [syntax |-> "yaml", err |-> "nil"]
    ELSE IF yaml = "convertErr" THEN [syntax |-> "none", err |-> "convertErr"]
    ELSE IF block = "ok" THEN [syntax |-> "block", err |-> "nil"]
    ELSE [syntax |-> "none", err |-> "blockErr"]

\* text in which a '{' is inside a comment or a quoted string
Hidden ==
    { <<>>,
      <<" ">>,
      <<"#", " ", "{", "\n">>,
      <<"/", "/", "{", "\n">>,
      <<"/", "*", "{", "\n", "*", "/">>,
      <<"\"", "{", BSL, "\"", "{", "\"">>,
      <<"'", "{", "'">>,
      <<BQ, "{", BSL, BQ>> }

\* a YAML array of one rule whose name holds a '{'
YAMLWithBrace ==
    <<"-", " ", "n", "a", "m", "e", ":", " ", "a", "{", "b", "}", "\n",
      " ", " ", "d", "o", ":", " ", "u", "p", "s", "t", "r", "e", "a", "m">>

\* a YAML array of one rule
YAMLWithoutBrace ==
    <<"-", " ", "d", "o", ":", " ", "u", "p", "s", "t", "r", "e", "a", "m">>

\* text without comments and quotes
Plain ==
    { <<>>,
      <<"a">>,
      <<"a", " ", "{">>,
      <<"a", " ", "{", "b", "}">>,
      <<"a", " ", "{", "b", "}", " ", "c">>,
      YAMLWithBrace,
      YAMLWithoutBrace }

\* what parseBlockRules can return for the text: no rules and no error when
\* there is nothing but white space and comments, an error when a rule
\* header is not followed by '{' or a '{' is not closed, and otherwise what
\* the parse of the rule decides
BlockOutcomes(hidden, plain) ==
    IF plain = <<>>
    THEN IF "\"" \in {hidden[k] : k \in 1..Len(hidden)}
            \/ "'" \in {hidden[k] : k \in 1..Len(hidden)}
            \/ BQ \in {hidden[k] : k \in 1..Len(hidden)}
         THEN {"err"} ELSE {"ok"}
    ELSE IF plain = <<"a", " ", "{", "b", "}">> THEN {"ok", "err"}
    ELSE {"err"}

\* what yaml.Unmarshal into a slice followed by serialization.ConvertSlice
\* can return for the text: only a YAML array, possibly after a YAML comment,
\* unmarshals
YAMLOutcomes(hidden, plain) ==
    IF /\ plain \in {YAMLWithBrace, YAMLWithoutBrace}
       /\ hidden \in {<<>>, <<" ">>, <<"#", " ", "{", "\n">>}
    THEN {"ok", "convertErr"}
    ELSE {"unmarshalErr"}

InitParse ==
    /\ NoRequest
    /\ arg \in UNION {[fn : {"Rules.Parse"}, hidden : {h}, plain : {p},
                       block : BlockOutcomes(h, p), yaml : YAMLOutcomes(h, p)] :
                         h \in Hidden, p \in Plain}
    /\ ret = NoCall

\* rules.Parse(config) for the configuration arg.hidden followed by arg.plain
CallParse ==
    /\ arg.fn = "Rules.Parse"
    /\ ret = NoCall
    /\ ret' = [fn |-> "Rules.Parse"] @@ RulesParse(arg.hidden \o arg.plain, arg.block, arg.yaml)
    /\ UNCHANGED <<arg, handlerVars>>

SpecParse == InitParse /\ [][CallParse]_vars

Parsed == arg.fn = "Rules.Parse" /\ ret.fn = "Rules.Parse"

\* the configuration has a '{' outside comments and quotes
TopLevelLBrace == \E k \in 1..Len(arg.plain) : arg.plain[k] = "{"

\* C18 as stated: the input is accepted as YAML only when it has no
\* top-level '{'; an input with one whose block parse fails is rejected with
\* the block-parse error.
C18_YAMLOnlyWithoutTopLevelBrace ==
    Parsed =>
        /\ ret.syntax = "yaml" => ~TopLevelLBrace
        /\ (TopLevelLBrace /\ arg.block = "err") => ret.err = "blockErr"

\* C18: an input with a top-level '{' is parsed as block syntax first and
\* YAML is not consulted when that succeeds; an input without one, or one
\* whose block parse failed, is accepted as YAML when it is a YAML array that
\* converts to rules and is rejected with the conversion error when it is a
\* YAML array that does not; only when it is no YAML array does the outcome
\* of the block parse decide, and a failure returns the block-parse error.
C18_BlockFirstThenYAML ==
    Parsed /\ arg.hidden \o arg.plain # <<>> /\ arg.hidden \o arg.plain # <<" ">> =>
        IF TopLevelLBrace /\ arg.block = "ok"
        THEN ret.syntax = "block" /\ ret.err = "nil"
        ELSE CASE arg.yaml = "ok" -> ret.syntax = "yaml" /\ ret.err = "nil"
               [] arg.yaml = "convertErr" -> ret.syntax = "none" /\ ret.err = "convertErr"
               [] arg.yaml = "unmarshalErr" ->
                    IF arg.block = "ok" THEN ret.syntax = "block" /\ ret.err = "nil"
                    ELSE ret.syntax = "none" /\ ret.err = "blockErr"

\* a YAML array with a '{' in a plain scalar, after a comment: the block
\* parse fails and the input is accepted as YAML
C18_Witness ==
    /\ Parsed
    /\ arg.hidden = <<"#", " ", "{", "\n">>
    /\ arg.plain = YAMLWithBrace
    /\ arg.block = "err" /\ arg.yaml = "ok"
    /\ ret.syntax = "yaml"

----------------------------------------------------------------------------
(* The do body of a block rule: preprocessDoBody, then parse of the line *)

MaxLen == 5

\* an expandEnvVarsRaw that drops a $ at the end of the text
expandEnvVarsRaw_DropsTrailingDollar(v) ==
    LET write(st, bytes) == [st EXCEPT !.buf = @ \o bytes]
        switch(st, r) ==
            CASE r = "$" ->
                   (IF st.expectingBrace
                    THEN [write(st, <<"$">>) EXCEPT !.expectingBrace = FALSE]
                    ELSE [st EXCEPT !.expectingBrace = TRUE])
              [] r = "{" ->
                   (IF st.expectingBrace
                    THEN [st EXCEPT !.inEnvVar = TRUE, !.expectingBrace = FALSE,
                                    !.envVar = <<>>]
                    ELSE write(st, <<r>>))
              [] r = "}" ->
                   (IF ~st.inEnvVar THEN write(st, <<r>>)
                    ELSE IF st.envVar \in DOMAIN Environ
                    THEN [write(st, Environ[st.envVar]) EXCEPT !.inEnvVar = FALSE]
                    ELSE [st EXCEPT !.missing = Append(@, st.envVar),
                                    !.inEnvVar = FALSE])
              [] OTHER ->
                   (IF st.inEnvVar THEN [st EXCEPT !.envVar = Append(@, r)]
                    ELSE write(st, <<r>>))
        step(st, r) ==
            switch(IF st.expectingBrace /\ r \notin {"{", "$"}
                   THEN [write(st, <<"$">>) EXCEPT !.expectingBrace = FALSE]
                   ELSE st, r)
        RECURSIVE run(_, _)
        run(st, i) == IF i > Len(v) THEN st ELSE run(step(st, v[i]), i + 1)
        back(st) == IF st.inEnvVar THEN write(st, <<"$", "{">> \o st.envVar) ELSE st
        result(st, end) ==
            [out |-> end.buf,
             err |-> (IF st.inEnvVar THEN {"ErrUnterminatedEnvVar"} ELSE {})
                     \cup (IF st.missing # <<>> THEN {"ErrEnvVarNotFound"} ELSE {})]
        finish(st) == result(st, back(st))
    IN finish(run([buf |-> <<>>, envVar |-> <<>>, missing |-> <<>>,
                   inEnvVar |-> FALSE, expectingBrace |-> FALSE], 1))

\* expandEnvVarsRaw (block_parser.go:19-89): ${NAME} replaced in place, $$
\* collapsed to $, quotes not looked at
expandEnvVarsRaw(v) ==
    LET write(st, bytes) == [st EXCEPT !.buf = @ \o bytes]
        switch(st, r) ==
            CASE r = "$" ->
                   (IF st.expectingBrace
                    THEN [write(st, <<"$">>) EXCEPT !.expectingBrace = FALSE]
                    ELSE [st EXCEPT !.expectingBrace = TRUE])
              [] r = "{" ->
                   (IF st.expectingBrace
                    THEN [st EXCEPT !.inEnvVar = TRUE, !.expectingBrace = FALSE,
                                    !.envVar = <<>>]
                    ELSE write(st, <<r>>))
              [] r = "}" ->
                   (IF ~st.inEnvVar THEN write(st, <<r>>)
                    ELSE IF st.envVar \in DOMAIN Environ
                    THEN [write(st, Environ[st.envVar]) EXCEPT !.inEnvVar = FALSE]
                    ELSE [st EXCEPT !.missing = Append(@, st.envVar),
                                    !.inEnvVar = FALSE])
              [] OTHER ->
                   (IF st.inEnvVar THEN [st EXCEPT !.envVar = Append(@, r)]
                    ELSE write(st, <<r>>))
        step(st, r) ==
            switch(IF st.expectingBrace /\ r \notin {"{", "$"}
                   THEN [write(st, <<"$">>) EXCEPT !.expectingBrace = FALSE]
                   ELSE st, r)
        RECURSIVE run(_, _)
        run(st, i) == IF i > Len(v) THEN st ELSE run(step(st, v[i]), i + 1)
        dollar(st) == IF st.expectingBrace THEN write(st, <<"$">>) ELSE st
        back(st) == IF st.inEnvVar THEN write(st, <<"$", "{">> \o st.envVar) ELSE st
        result(st, end) ==
            [out |-> end.buf,
             err |-> (IF st.inEnvVar THEN {"ErrUnterminatedEnvVar"} ELSE {})
                     \cup (IF st.missing # <<>> THEN {"ErrEnvVarNotFound"} ELSE {})]
        finish(st) == result(st, back(dollar(st)))
    IN finish(run([buf |-> <<>>, envVar |-> <<>>, missing |-> <<>>,
                   inEnvVar |-> FALSE, expectingBrace |-> FALSE], 1))

\* s contains "${"
ContainsEnvRef(s) == \E i \in 1..(Len(s) - 1) : s[i] = "$" /\ s[i + 1] = "{"

\* preprocessDoBody (block_parser.go:217-267) for a body of one line without
\* comment characters: trimmed, then expanded when it contains "${"
preprocessDoBody(doBody) ==
    LET expand(normalized) ==
            IF ~ContainsEnvRef(normalized) THEN [out |-> normalized, err |-> {}]
            ELSE LET e == expandEnvVarsRaw(normalized)
                 IN IF e.err # {} THEN [out |-> <<>>, err |-> e.err] ELSE e
    IN expand(TrimSpace(doBody))

\* parseBlockRules for the body of one rule (block_parser.go:174-206):
\* preprocessDoBody, then Command.Parse, which stores the body as raw and
\* hands the trimmed line to parse (appendLineCommand, part_005:350-359)
parseDoBody(doBody) ==
    LET line(pre) ==
            IF pre.err # {} \/ pre.out = <<>>
            THEN [raw |-> <<>>, subject |-> <<>>, args |-> <<>>, err |-> pre.err]
            ELSE [raw |-> pre.out] @@ parse(TrimSpace(pre.out))
    IN line(preprocessDoBody(doBody))

\* the bytes an argument is written with
DoBytes == {"$", "{", "}", "A", "B"}

\* the bodies: one command with one argument of up to MaxLen bytes
DoBodies ==
    {<<"s", "e", "t", " ">> \o a : a \in UNION {[1..n -> DoBytes] : n \in 1..MaxLen}}

InitDoBody ==
    /\ NoRequest
    /\ arg \in [fn : {"parseDoBody"}, body : DoBodies]
    /\ ret = NoCall

CallDoBody ==
    /\ arg.fn = "parseDoBody"
    /\ ret = NoCall
    /\ ret' = [fn |-> "parseDoBody"] @@ parseDoBody(arg.body)
    /\ UNCHANGED <<arg, handlerVars>>

SpecDoBody == InitDoBody /\ [][CallDoBody]_vars

\* the body parsed without error
DoBodyParsed == arg.fn = "parseDoBody" /\ ret.fn = "parseDoBody" /\ ret.err = {}

\* C19: the stored raw body and the parsed arguments are those of a single
\* expansion of the source: raw is the source with each ${NAME} replaced and
\* each $$ collapsed once, and the command and its arguments are what one
\* expanding scan of the source yields.
C19_ExpandedExactlyOnce ==
    DoBodyParsed =>
        /\ ContainsEnvRef(arg.body) => ret.raw = expandEnvVarsRaw(arg.body).out
        /\ ret.subject = parse(arg.body).subject
        /\ ret.args = parse(arg.body).args

----------------------------------------------------------------------------
(* The AND segments of a condition: RuleOn.Parse and matcherSignature *)

\* the bytes a condition is written with
OnBytes == {"a", "&", "\n", "\"", "(", ")", BSL}

\* a header condition whose quoted value holds an &
OnHeaderQuotedAnd ==
    <<"h", "e", "a", "d", "e", "r", " ", "X", " ", "\"", "a", "&", "b", "\"">>

\* two conditions joined by &
OnPathAndMethod == OnPath \o <<" ", "&", " ">> \o OnMethod

OnTexts ==
    UNION {[1..n -> OnBytes] : n \in 1..MaxLen}
    \cup {OnHeaderQuotedAnd, OnPathAndMethod}

InitAndParts ==
    /\ NoRequest
    /\ arg \in [fn : {"forEachAndPart"}, on : OnTexts]
    /\ ret = NoCall

\* on.Parse(arg.on) and matcherSignature(arg.on): the parts RuleOn.Parse
\* hands to parseOn, the segments matcherSignature canonicalises, and the
\* error of RuleOn.Parse
CallAndParts ==
    /\ arg.fn = "forEachAndPart"
    /\ ret = NoCall
    /\ ret' = [fn |-> "forEachAndPart",
               parts |-> forEachAndPart(arg.on),
               segs |-> splitAnd(arg.on),
               err |-> RuleOnParse(arg.on).err]
    /\ UNCHANGED <<arg, handlerVars>>

SpecAndParts == InitAndParts /\ [][CallAndParts]_vars

AndPartsDone == arg.fn = "forEachAndPart" /\ ret.fn = "forEachAndPart"

\* the condition cut at the & and newlines that stand outside quotes and
\* brackets and are not escaped
QuotedAndParts == forEachPart(arg.on, andSeps)

\* C20: a condition is cut into AND segments only at the & and newlines
\* outside quotes, brackets and escapes, when it is parsed and when its
\* signature is computed, so a condition whose segments parse is accepted.
C20_AndSplitRespectsQuoting ==
    AndPartsDone =>
        /\ ret.parts = QuotedAndParts
        /\ ret.segs = QuotedAndParts
        /\ (\A k \in 1..Len(QuotedAndParts) : parseOn(QuotedAndParts[k]).err = {})
              => ret.err = {}

----------------------------------------------------------------------------
(* Tokenizer.findMatchingBrace: the end of a rule body or nested block *)

\* Tokenizer.findMatchingBrace (part_006:117-249) for the text after the
\* opening '{': the index of the matching '}', counted from 1, or 0 for the
\* error "unmatched '{'"
findMatchingBrace(src) ==
    LET n == Len(src)
        at(i) == IF i <= n THEN src[i] ELSE NUL
        \* the loop that skips ${...} from its first byte on
        RECURSIVE skipEnv(_, _, _)
        skipEnv(pos, depth, envQuote) ==
            IF pos > n THEN pos
            ELSE IF envQuote # NUL
            THEN skipEnv(pos + 1, depth, IF src[pos] = envQuote THEN NUL ELSE envQuote)
            ELSE IF src[pos] \in quoteChars THEN skipEnv(pos + 1, depth, src[pos])
            ELSE IF src[pos] = "{" THEN skipEnv(pos + 1, depth + 1, NUL)
            ELSE IF src[pos] = "}"
            THEN IF depth = 1 THEN pos + 1 ELSE skipEnv(pos + 1, depth - 1, NUL)
            ELSE skipEnv(pos + 1, depth, NUL)
        RECURSIVE scan(_, _, _, _, _, _)
        scan(pos, braceDepth, quote, inLine, inBlock, boundary) ==
            IF pos > n THEN 0
            ELSE LET c == src[pos]
                     after == c = "\n" \/ c \in asciiSpace
                 IN IF inLine
                    THEN scan(pos + 1, braceDepth, quote, c # "\n", FALSE,
                              IF c = "\n" THEN TRUE ELSE boundary)
                    ELSE IF inBlock
                    THEN IF c = "*" /\ at(pos + 1) = "/"
                         THEN scan(pos + 2, braceDepth, quote, FALSE, FALSE, boundary)
                         ELSE scan(pos + 1, braceDepth, quote, FALSE, TRUE,
                                   IF c = "\n" THEN TRUE ELSE boundary)
                    ELSE IF quote # NUL
                    THEN scan(pos + 1, braceDepth, IF c = quote THEN NUL ELSE quote,
                              FALSE, FALSE, after)
                    ELSE IF c \in quoteChars
                    THEN scan(pos + 1, braceDepth, c, FALSE, FALSE, FALSE)
                    ELSE IF c = "#" /\ boundary
                    THEN scan(pos + 1, braceDepth, NUL, TRUE, FALSE, boundary)
                    ELSE IF c = "/" /\ pos < n /\ boundary /\ at(pos + 1) = "/"
                    THEN scan(pos + 2, braceDepth, NUL, TRUE, FALSE, boundary)
                    ELSE IF c = "/" /\ pos < n /\ boundary /\ at(pos + 1) = "*"
                    THEN scan(pos + 2, braceDepth, NUL, FALSE, TRUE, boundary)
                    ELSE IF c = "$" /\ pos < n /\ at(pos + 1) = "{"
                    THEN scan(skipEnv(pos + 2, 1, NUL), braceDepth, NUL, FALSE, FALSE,
                              boundary)
                    ELSE IF c = "}" /\ braceDepth = 1 THEN pos
                    ELSE scan(pos + 1,
                              IF c = "{" THEN braceDepth + 1
                              ELSE IF c = "}" THEN braceDepth - 1 ELSE braceDepth,
                              NUL, FALSE, FALSE, after)
    IN scan(1, 1, NUL, FALSE, FALSE, TRUE)

\* the bytes a body is written with
BodyBytes == {"\"", BSL, "{", "}", "a"}

\* what follows the '{' of a rule: up to MaxLen bytes and the closing '}'
BodyTexts == {b \o <<"}">> : b \in UNION {[1..n -> BodyBytes] : n \in 0..MaxLen}}

InitBrace ==
    /\ NoRequest
    /\ arg \in [fn : {"findMatchingBrace"}, src : BodyTexts]
    /\ ret = NoCall

CallBrace ==
    /\ arg.fn = "findMatchingBrace"
    /\ ret = NoCall
    /\ ret' = [fn |-> "findMatchingBrace", pos |-> findMatchingBrace(arg.src)]
    /\ UNCHANGED <<arg, handlerVars>>

SpecBrace == InitBrace /\ [][CallBrace]_vars

BraceFound == arg.fn = "findMatchingBrace" /\ ret.fn = "findMatchingBrace"

\* the bytes of src inside a quoted string, quotes included, as the line
\* parser delimits strings (parser.go:146-171): a quote opens a string, the
\* same quote closes it, and the byte after a backslash is neither
InString(src) ==
    LET RECURSIVE scan(_, _, _, _)
        scan(i, quote, escaped, open) ==
            IF i > Len(src) THEN {}
            ELSE IF escaped
            THEN scan(i + 1, quote, FALSE, IF quote # NUL THEN open \cup {i} ELSE open)
            ELSE IF src[i] = BSL
            THEN scan(i + 1, quote, TRUE, IF quote # NUL THEN open \cup {i} ELSE open)
            ELSE IF quote = NUL
            THEN IF src[i] \in quoteChars THEN scan(i + 1, src[i], FALSE, {i})
                 ELSE scan(i + 1, NUL, FALSE, {})
            ELSE IF src[i] = quote THEN open \cup {i} \cup scan(i + 1, NUL, FALSE, {})
            ELSE scan(i + 1, quote, FALSE, open \cup {i})
    IN scan(1, NUL, FALSE, {})

\* src with every brace inside a quoted string replaced by a letter
Blanked(src) ==
    [i \in 1..Len(src) |->
        IF src[i] \in {"{", "}"} /\ i \in InString(src) THEN "a" ELSE src[i]]

\* C21: a brace inside a quoted string, the string being the one the line
\* parser sees, is not structural: the '}' found for the body is not inside
\* a string, and the body ends where it ends when the braces inside strings
\* are replaced by letters.
C21_QuotedBracesNotStructural ==
    BraceFound =>
        /\ ret.pos \notin InString(arg.src)
        /\ ret.pos = findMatchingBrace(Blanked(arg.src))

----------------------------------------------------------------------------
(* The remote matcher: validateCIDR and checkers[OnRemote]                 *)
(* An address is its family and its bytes, 4 for IPv4 and 16 for IPv6.     *)

IPv4(a, b, c, d) == [family |-> 4, bytes |-> <<a, b, c, d>>]

\* the IPv6 address a:b::c with the 16-bit groups a, b and c below 256
IPv6(a, b, c) ==
    [family |-> 6, bytes |-> <<0, a, 0, b, 0, 0, 0, 0, 0, 0, 0, 0, 0, 0, 0, c>>]

\* IP.Mask with a CIDR mask of ones leading one bits
Mask(ip, ones) ==
    [family |-> ip.family,
     bytes |-> [k \in 1..Len(ip.bytes) |->
                  LET kept == IF ones >= 8 * k THEN 8
                              ELSE IF ones <= 8 * (k - 1) THEN 0
                              ELSE ones - 8 * (k - 1)
                  IN ip.bytes[k] - (ip.bytes[k] % (2 ^ (8 - kept)))]]

\* net.ParseCIDR of the text "ip/ones": the network with the masked address,
\* an error when the prefix length exceeds the bits of the family
ParseCIDR(ip, ones) ==
    IF ones > 8 * Len(ip.bytes) THEN [ok |-> FALSE]
    ELSE [ok |-> TRUE, IP |-> Mask(ip, ones), ones |-> ones, bits |-> 8 * Len(ip.bytes)]

\* validateCIDR (vars_dynamic.go:234-251); prefix -1 stands for an argument
\* without "/", which gets "/32" appended
validateCIDR(ip, prefix) == ParseCIDR(ip, IF prefix = -1 THEN 32 ELSE prefix)

\* the CheckFunc built for remote (on.go:403-421); remote is the address
\* GetRemoteIP returns, of family 0 when it returns nil
remoteCheck(ipnet, remote) ==
    IF remote.family = 0 THEN FALSE
    ELSE IF ipnet.ones = ipnet.bits THEN remote = ipnet.IP
    ELSE remote.family = ipnet.IP.family /\ Mask(remote, ipnet.ones) = ipnet.IP

RemoteAddrs ==
    {IPv4(10, 0, 0, 1), IPv4(10, 0, 0, 2), IPv4(10, 0, 1, 1), IPv4(11, 0, 0, 1),
     IPv6(32, 184, 1), IPv6(32, 184, 2), IPv6(32, 185, 1), IPv6(0, 0, 1)}

InitRemote ==
    /\ NoRequest
    /\ arg \in [fn : {"remote"}, ip : RemoteAddrs, prefix : {-1, 8, 24, 32, 128},
                remote : RemoteAddrs \cup {[family |-> 0, bytes |-> <<>>]}]
    /\ ret = NoCall

\* the rule "remote <ip>[/prefix]" is parsed and checked on a request
CallRemote ==
    /\ arg.fn = "remote"
    /\ ret = NoCall
    /\ ret' = LET ipnet == validateCIDR(arg.ip, arg.prefix)
              IN [fn |-> "remote", ok |-> ipnet.ok,
                  match |-> ipnet.ok /\ remoteCheck(ipnet, arg.remote)]
    /\ UNCHANGED <<arg, handlerVars>>

SpecRemote == InitRemote /\ [][CallRemote]_vars

RemoteChecked == arg.fn = "remote" /\ ret.fn = "remote"

\* C22: a remote matcher with a bare address is accepted and matches exactly
\* the requests whose remote IP is that address, IPv4 or IPv6.
C22_BareAddressIsEquality ==
    (RemoteChecked /\ arg.prefix = -1) =>
        /\ ret.ok
        /\ ret.match <=> arg.remote = arg.ip

----------------------------------------------------------------------------
(* set / add / remove cookie (modFields[FieldCookie]).  The request's      *)
(* cookies are a list of name and value; arg holds the list, ret the       *)
(* command that ran last and the list it found.                            *)

MaxCommands == 3

CookieNames == {"k", "j"}

CookieValues == {"1", "2"}

\* the function set hands to UpdateCookies: the first cookie named k gets
\* the value, or a new cookie is appended
cookieSet(cookies, k, v) ==
    IF \E i \in 1..Len(cookies) : cookies[i].Name = k
    THEN LET i == CHOOSE i \in 1..Len(cookies) :
                      /\ cookies[i].Name = k
                      /\ \A j \in 1..(i - 1) : cookies[j].Name # k
         IN [cookies EXCEPT ![i].Value = v]
    ELSE Append(cookies, [Name |-> k, Value |-> v])

\* the function add hands to UpdateCookies
cookieAdd(cookies, k, v) == Append(cookies, [Name |-> k, Value |-> v])

\* the function remove hands to UpdateCookies: the first cookie named k is
\* cut out
cookieRemove(cookies, k) ==
    IF \E i \in 1..Len(cookies) : cookies[i].Name = k
    THEN LET index == CHOOSE i \in 1..Len(cookies) :
                          /\ cookies[i].Name = k
                          /\ \A j \in 1..(i - 1) : cookies[j].Name # k
         IN IF Len(cookies) = 1 THEN <<>>
            ELSE SubSeq(cookies, 1, index - 1) \o SubSeq(cookies, index + 1, Len(cookies))
    ELSE cookies

\* a request arrives without cookies or with one
InitCookie ==
    /\ NoRequest
    /\ arg \in [fn : {"cookie"}, n : {0},
                cookies : {<<>>} \cup {<<[Name |-> k, Value |-> "1"]>> : k \in CookieNames}]
    /\ ret = NoCall

Ran(op, k) == ret' = [fn |-> "cookie", op |-> op, k |-> k, found |-> arg.cookies]

\* set cookie k v; the template of the value may fail to expand
SetCookie ==
    /\ arg.fn = "cookie" /\ arg.n < MaxCommands
    /\ \E k \in CookieNames :
          /\ \/ \E v \in CookieValues :
                  arg' = [arg EXCEPT !.n = @ + 1, !.cookies = cookieSet(@, k, v)]
             \/ arg' = [arg EXCEPT !.n = @ + 1]
          /\ Ran("set", k)
    /\ UNCHANGED handlerVars

\* add cookie k v
AddCookie ==
    /\ arg.fn = "cookie" /\ arg.n < MaxCommands
    /\ \E k \in CookieNames :
          /\ \/ \E v \in CookieValues :
                  arg' = [arg EXCEPT !.n = @ + 1, !.cookies = cookieAdd(@, k, v)]
             \/ arg' = [arg EXCEPT !.n = @ + 1]
          /\ Ran("add", k)
    /\ UNCHANGED handlerVars

\* remove cookie k
RemoveCookie ==
    /\ arg.fn = "cookie" /\ arg.n < MaxCommands
    /\ \E k \in CookieNames :
          /\ arg' = [arg EXCEPT !.n = @ + 1, !.cookies = cookieRemove(@, k)]
          /\ Ran("remove", k)
    /\ UNCHANGED handlerVars

NextCookie ==
    \/ SetCookie
    \/ AddCookie
    \/ RemoveCookie

SpecCookie == InitCookie /\ [][NextCookie]_vars

\* the cookies of the list that are not named k, in order
Others(cookies, k) == SelectSeq(cookies, LAMBDA c : c.Name # k)

\* C23: after remove cookie k the request has no cookie named k, whatever
\* set and add commands ran before, and the other cookies are as they were.
C23_RemoveDeletesByName ==
    (arg.fn = "cookie" /\ ret.fn = "cookie" /\ ret.op = "remove") =>
        /\ \A i \in 1..Len(arg.cookies) : arg.cookies[i].Name # ret.k
        /\ Others(arg.cookies, ret.k) = Others(ret.found, ret.k)

----------------------------------------------------------------------------
(* Middleware.ServeHTTP: the gate on rewriting a response body.  A header  *)
(* value is the list of its comma separated tokens, trimmed; a content     *)
(* type is the list of the pieces the gate looks for.                      *)

\* strings.ToLower / strings.EqualFold on the words in use
Lower(w) ==
    CASE w = "Identity" -> "identity"
      [] w = "Text/" -> "text/"
      [] w = "HTML" -> "html"
      [] OTHER -> w

\* hasNonIdentityEncoding: some token is neither empty nor "identity"
hasNonIdentityEncoding(values) ==
    \E i \in 1..Len(values) : \E j \in 1..Len(values[i]) :
        values[i][j] # "" /\ Lower(values[i][j]) # "identity"

\* isTextLikeMediaType
isTextLikeMediaType(contentType) ==
    LET ct == [k \in 1..Len(contentType) |-> Lower(contentType[k])]
        has(w) == \E k \in 1..Len(ct) : ct[k] = w
    IN IF ct = <<>> THEN FALSE
       ELSE \/ ct[1] = "text/"
            \/ ct = <<"application/", "json">> \/ ct[Len(ct)] = "+json"
            \/ ct = <<"application/", "xml">> \/ ct[Len(ct)] = "+xml"
            \/ has("yaml") \/ has("toml")
            \/ has("javascript") \/ has("ecmascript")
            \/ has("csv")
            \/ ct = <<"application/", "x-www-form-urlencoded">>

\* a canModifyResponseBody that does not look at Content-Encoding
canModifyResponseBody_IgnoresContentEncoding(resp) ==
    /\ ~hasNonIdentityEncoding(resp.TransferEncoding)
    /\ isTextLikeMediaType(resp.ContentType)

\* canModifyResponseBody; resp.TransferEncoding is not set on the response
\* ServeHTTP builds, so only the headers count
canModifyResponseBody(resp) ==
    /\ ~hasNonIdentityEncoding(resp.TransferEncoding)
    /\ ~hasNonIdentityEncoding(resp.ContentEncoding)
    /\ isTextLikeMediaType(resp.ContentType)

\* values of Transfer-Encoding and Content-Encoding
Encodings ==
    {<<>>, <<<<"identity">>>>, <<<<"Identity", "">>>>, <<<<"gzip">>>>,
     <<<<"identity", "chunked">>>>, <<<<"identity">>, <<"gzip">>>>}

ContentTypes ==
    {<<>>, <<"text/", "html">>, <<"Text/", "HTML">>, <<"application/", "json">>,
     <<"application/", "ld", "+json">>, <<"application/", "xml">>,
     <<"image/", "svg", "+xml">>, <<"application/", "x-", "yaml">>,
     <<"application/", "toml">>, <<"application/", "javascript">>,
     <<"application/", "ecmascript">>, <<"text/", "csv">>,
     <<"application/", "x-www-form-urlencoded">>,
     <<"application/", "octet-stream">>, <<"image/", "png">>,
     <<"application/", "json", "-seq">>}

\* the headers the upstream handler wrote
UpstreamHeader == [k \in {"X-Old"} |-> "0"]

\* what modifyResponse does with the response it is handed: the status it
\* assigns, the header map after its changes in place, the map it assigns to
\* resp.Header if it assigns one, whether it assigns a new body, its error
Rewrites ==
    [status : {200, 418},
     inplace : {UpstreamHeader,
                [k \in {"X-Old", "X-Rewrite"} |-> IF k = "X-Old" THEN "0" ELSE "1"],
                [k \in {"X-Rewrite"} |-> "1"]},
     assigned : {"none", "X-Rewrite"},
     body : {"current", "rewritten"},
     err : BOOLEAN]

\* maps.Copy(dst, src)
MapsCopy(dst, src) ==
    [k \in DOMAIN dst \cup DOMAIN src |-> IF k \in DOMAIN src THEN src[k] ELSE dst[k]]

InitMiddleware ==
    /\ NoRequest
    /\ arg \in [fn : {"Middleware.ServeHTTP"},
                flow : {"modify", "stopped", "websocket", "noResponseModifier"},
                te : {<<>>, <<<<"identity">>>>, <<<<"chunked">>>>},
                ce : Encodings, ct : ContentTypes, mod : Rewrites,
                setBody : {"ok", "err"}]
    /\ ret = NoCall

\* m.ServeHTTP(next, w, r); next writes status 200, UpstreamHeader and the
\* body "original"
CallMiddleware ==
    /\ arg.fn = "Middleware.ServeHTTP"
    /\ ret = NoCall
    /\ ret' =
         IF arg.flow = "stopped"
         THEN [fn |-> "Middleware.ServeHTTP", served |-> FALSE, modified |-> FALSE]
         ELSE IF arg.flow \in {"websocket", "noResponseModifier"}
         THEN [fn |-> "Middleware.ServeHTTP", served |-> TRUE, modified |-> FALSE,
               status |-> 200, header |-> UpstreamHeader, body |-> "original"]
         ELSE LET allow == canModifyResponseBody(
                               [TransferEncoding |-> arg.te, ContentEncoding |-> arg.ce,
                                ContentType |-> arg.ct])
              IN [fn |-> "Middleware.ServeHTTP", served |-> TRUE, modified |-> TRUE,
                  status |-> arg.mod.status,
                  header |-> IF arg.mod.assigned = "none" THEN arg.mod.inplace
                             ELSE MapsCopy(arg.mod.inplace,
                                           [k \in {"X-Rewrite"} |-> "2"]),
                  body |-> IF arg.mod.body = "rewritten" /\ allow
                           THEN (IF arg.setBody = "ok" THEN "rewritten" ELSE "original")
                           ELSE "original"]
    /\ UNCHANGED <<arg, handlerVars>>

SpecMiddleware == InitMiddleware /\ [][CallMiddleware]_vars

\* modifyResponse was called on the response
Rewritten == arg.fn = "Middleware.ServeHTTP" /\ ret.fn = "Middleware.ServeHTTP" /\ ret.modified

\* the upstream response has no Transfer-Encoding and no Content-Encoding
\* other than identity and a text-like Content-Type
BodyRewriteAllowed ==
    /\ arg.te \in {<<>>, <<<<"identity">>>>}
    /\ arg.ce \in {<<>>, <<<<"identity">>>>, <<<<"Identity", "">>>>}
    /\ arg.ct \in {<<"text/", "html">>, <<"Text/", "HTML">>, <<"application/", "json">>,
                   <<"application/", "ld", "+json">>, <<"application/", "xml">>,
                   <<"image/", "svg", "+xml">>, <<"application/", "x-", "yaml">>,
                   <<"application/", "toml">>, <<"application/", "javascript">>,
                   <<"application/", "ecmascript">>, <<"text/", "csv">>,
                   <<"application/", "x-www-form-urlencoded">>}

\* C24: when a response modifier rewrites a response, the status it assigns
\* and the headers it sets or deletes are applied whether or not its call
\* fails, its replacement body is applied only if the upstream response has
\* no non-identity Transfer-Encoding or Content-Encoding and a text-like
\* Content-Type, and otherwise the original body is passed through.
C24_BodyRewriteGate ==
    Rewritten =>
        /\ ret.status = arg.mod.status
        /\ IF arg.mod.assigned = "none" THEN ret.header = arg.mod.inplace
           ELSE "X-Rewrite" \in DOMAIN ret.header /\ ret.header["X-Rewrite"] = "2"
        /\ ret.body = "rewritten" =>
              arg.mod.body = "rewritten" /\ BodyRewriteAllowed
        /\ (arg.mod.body = "rewritten" /\ BodyRewriteAllowed /\ arg.setBody = "ok")
              => ret.body = "rewritten"
        /\ ~BodyRewriteAllowed => ret.body = "original"

\* a gzip-encoded HTML response rewritten by a modifier that fails: status
\* and header are applied, the body is the original one
C24_Witness ==
    /\ Rewritten
    /\ arg.ct = <<"text/", "html">> /\ arg.ce = <<<<"gzip">>>> /\ arg.te = <<>>
    /\ arg.mod.body = "rewritten" /\ arg.mod.err
    /\ ret.status = 418 /\ "X-Rewrite" \in DOMAIN ret.header
    /\ ret.body = "original"

----------------------------------------------------------------------------
(* Command.Parse on a fresh Command, for bodies of every phase mix *)

MaxEntries == 3

\* entries of phase pre, post, pre|post and none, and nested blocks
Entries ==
    {Handler(CommandSetHeader), Handler(CommandSetRespHeader),
     Handler(CommandErrorTmpl), Handler(CommandLog),
     IfBlockCommand(RuleOn(OnPath), <<Handler(CommandSetRespHeader)>>),
     IfBlockCommand(RuleOn(OnStatus4xx), <<Handler(CommandSetHeader)>>)}

EntryLists == UNION {[1..n -> Entries] : n \in 0..MaxEntries}

InitCommandParse ==
    /\ NoRequest
    /\ arg \in [fn : {"Command.Parse"}, body : EntryLists]
    /\ ret = NoCall

CallCommandParse ==
    /\ arg.fn = "Command.Parse"
    /\ ret = NoCall
    /\ ret' = [fn |-> "Command.Parse", do |-> CommandParse(arg.body)]
    /\ UNCHANGED <<arg, handlerVars>>

SpecCommandParse == InitCommandParse /\ [][CallCommandParse]_vars

CommandParsed == arg.fn = "Command.Parse" /\ ret.fn = "Command.Parse"

\* how many times position k occurs in a list
Occurrences(list, k) == Cardinality({i \in 1..Len(list) : list[i] = k})

Ascending(list) == \A i, j \in 1..Len(list) : i < j => list[i] < list[j]

\* C25: after Command.Parse every entry of the body is in exactly one of the
\* pre and post lists, in the post list exactly when its Phase() has the
\* Post bit, and both lists keep the entries in declaration order.
C25_PrePostPartition ==
    CommandParsed =>
        /\ \A k \in 1..Len(arg.body) :
              /\ Occurrences(ret.do.pre, k) + Occurrences(ret.do.post, k) = 1
              /\ Occurrences(ret.do.post, k) = 1
                    <=> HandlerPhase(arg.body[k]) \in {PhasePost, PhasePre + PhasePost}
        /\ Len(ret.do.pre) + Len(ret.do.post) = Len(arg.body)
        /\ Ascending(ret.do.pre) /\ Ascending(ret.do.post)

\* a body whose entries interleave: pre, pre|post, none
C25_Witness ==
    /\ CommandParsed
    /\ Len(arg.body) = 3
    /\ HandlerPhase(arg.body[1]) = PhasePre
    /\ HandlerPhase(arg.body[2]) = PhasePre + PhasePost
    /\ HandlerPhase(arg.body[3]) = PhaseNone
    /\ ret.do.pre = <<1, 3>> /\ ret.do.post = <<2>>

----------------------------------------------------------------------------
(* How often a request reaches the upstream handler *)

\* C26: for every request the upstream handler is invoked at most once,
\* counting the executor's upstream step and the upstream commands of every
\* rule, the rules whose condition is evaluated on the response included.
C26_UpstreamAtMostOnce == upCalls <= 1

----------------------------------------------------------------------------
(* Dead rules of Validate, in the handler built from the same rules *)

\* C27: if Validate rejects rule j as dead because an earlier rule i with
\* the same signature terminates in pre, then in every request in which
\* rule i terminates no command of rule j is executed, pre or post.
C27_DeadRuleNeverRuns ==
    \A i, j \in 1..Len(rules) :
        (i < j /\ shadows(rules, i, j) /\ TerminatedInPrePhase(i)) =>
            \A k \in TraceIdx : trace[k].rule # j

----------------------------------------------------------------------------
(* Nested blocks in the pre and post lists *)

\* bodies whose nested block gets the Post bit from its condition, from a
\* command of a branch, from its else branch, or not at all
NestedBodies ==
    { <<Handler(CommandSetHeader),
        IfBlockCommand(RuleOn(OnPath), <<Handler(CommandSetHeader), Handler(CommandError)>>),
        Handler(CommandSetRespHeader)>>,
      <<IfBlockCommand(RuleOn(OnStatus4xx),
                       <<Handler(CommandSetHeader), Handler(CommandError)>>),
        Handler(CommandSetHeader)>>,
      <<IfBlockCommand(RuleOn(<<>>),
                       <<Handler(CommandSetHeader), Handler(CommandSetRespHeader),
                         Handler(CommandError)>>)>>,
      <<IfElseBlockCommand(<<[On |-> RuleOn(OnPath), Do |-> <<Handler(CommandError)>>]>>,
                           <<Handler(CommandSetHeader)>>),
        Handler(CommandSetRespHeader)>>,
      <<IfElseBlockCommand(<<[On |-> RuleOn(OnPath), Do |-> <<Handler(CommandSetHeader)>>]>>,
                           <<Handler(CommandSetRespHeader), Handler(CommandError)>>)>>,
      <<IfElseBlockCommand(<<[On |-> RuleOn(OnPath), Do |-> <<Handler(CommandSetHeader)>>],
                             [On |-> RuleOn(OnStatus4xx), Do |-> <<Handler(CommandError)>>]>>,
                           <<>>),
        Handler(CommandLog)>> }

NestedCatalog ==
    {Rule("", on, body) : on \in {<<>>, OnPath, OnStatus4xx}, body \in NestedBodies}
    \cup {Rule("default", OnPath, body) : body \in NestedBodies}

NestedRuleSets == UNION {[1..n -> NestedCatalog] : n \in 0..MaxRules}

InitNested ==
    /\ \E rs \in NestedRuleSets : Enter(rs)
    /\ arg = NoCall
    /\ ret = NoCall
    /\ cur = 1
    /\ parked = <<>>

SpecNested == InitNested /\ [][Next]_vars

\* the trace entries of commands inside a nested block, and their block
InBlock == {k \in TraceIdx : Len(trace[k].pos) = 3}

BlockOf(k) == rules[trace[k].rule].Do.raw[trace[k].pos[1]]

\* the block's condition or a command of one of its branches has the Post bit
HasPostBit(c) ==
    LET post(phase) == phase \in {PhasePost, PhasePre + PhasePost}
        inList(cmds) == \E k \in 1..Len(cmds) : post(commands[cmds[k].name].phase)
    IN \/ \E b \in 1..Len(c.Ifs) : post(c.Ifs[b].On.phase) \/ inList(c.Ifs[b].Do)
       \/ inList(c.Else)

----------------------------------------------------------------------------
(* Rule.doesTerminateInPre against execPreCommand *)

\* the conditions of a nested block: a nil checker, default and a request
\* condition
PreOns == {RuleOn(<<>>), RuleOn(OnDefault), RuleOn(OnPath)}

\* bodies that return nil, terminate after a handler that may fail, or
\* terminate unless the AuthHandler hook did so before
PreBodies ==
    { <<>>,
      <<Handler(CommandSetHeader)>>,
      <<Handler(CommandLog), Handler(CommandError)>>,
      <<Handler(CommandRequireAuth), Handler(CommandUpstream)>> }

PreEntries ==
    {Handler(CommandSetHeader), Handler(CommandError)}
    \cup {IfBlockCommand(on, do) : on \in PreOns, do \in PreBodies}
    \cup {IfElseBlockCommand(ifs, else) :
             ifs \in UNION {[1..n -> [On : PreOns, Do : PreBodies]] : n \in 1..MaxBranches},
             else \in PreBodies}

\* rules whose pre list is one entry, alone or after a handler
PreRules ==
    {Rule("", OnPath, <<e>>) : e \in PreEntries}
    \cup {Rule("", OnPath, <<h, e>>) :
             h \in {Handler(CommandSetHeader), Handler(CommandLog)}, e \in PreEntries}

InitTerminates ==
    /\ NoRequest
    /\ arg \in [fn : {"doesTerminateInPre"}, rule : PreRules, path : BOOLEAN]
    /\ ret = NoCall

\* rule.doesTerminateInPre(), and execPreCommand(rule.Do, rm, r) on a fresh
\* response modifier
CallTerminates ==
    /\ arg.fn = "doesTerminateInPre"
    /\ ret = NoCall
    /\ \E o \in execPreCommand(arg.rule.Do, [status |-> 0, upCalls |-> 0, trace |-> <<>>],
                                [rule |-> 1, stage |-> "pre", loop |-> "pre",
                                 list |-> "pre", path |-> arg.path]) :
           ret' = [fn |-> "doesTerminateInPre",
                   terminates |-> doesTerminateInPre(arg.rule),
                   err |-> o.err, trace |-> o.st.trace]
    /\ UNCHANGED <<arg, handlerVars>>

SpecTerminates == InitTerminates /\ [][CallTerminates]_vars

Analysed == arg.fn = "doesTerminateInPre" /\ ret.fn = "doesTerminateInPre"

\* C29: whenever doesTerminateInPre classifies a rule as terminating in
\* pre, every execution of the rule's pre commands in which no command
\* returns an error other than the termination signal ends with the
\* termination signal, for every request.
C29_TerminatesInPreIsSound ==
    (Analysed /\ ret.terminates /\ ret.err # "error") => ret.err = "terminate"

\* a chain without else, classified through its always-true second branch,
\* served for a request its first branch does not match
C29_Witness ==
    /\ Analysed
    /\ ret.terminates
    /\ ret.err = "terminate"
    /\ ~arg.path
    /\ Len(arg.rule.Do.raw) = 1
    /\ arg.rule.Do.raw[1].kind = "ifelse"
    /\ Len(arg.rule.Do.raw[1].Ifs) = 2
    /\ arg.rule.Do.raw[1].Ifs[1].On.raw = OnPath
    /\ arg.rule.Do.raw[1].Ifs[2].On.raw = OnDefault
    /\ arg.rule.Do.raw[1].Else = <<>>

----------------------------------------------------------------------------
(* expandEnvVarsRaw applied to its own output *)

ExpandTexts == UNION {[1..n -> DoBytes] : n \in 0..MaxLen}

InitExpand ==
    /\ NoRequest
    /\ arg \in [fn : {"expandEnvVarsRaw"}, s : ExpandTexts]
    /\ ret = NoCall

\* expandEnvVarsRaw(s), and expandEnvVarsRaw of what it returned
CallExpand ==
    /\ arg.fn = "expandEnvVarsRaw"
    /\ ret = NoCall
    /\ ret' = LET twice(once) ==
                      [fn |-> "expandEnvVarsRaw", once |-> once,
                       twice |-> expandEnvVarsRaw(once.out)]
              IN twice(expandEnvVarsRaw(arg.s))
    /\ UNCHANGED <<arg, handlerVars>>

SpecExpand == InitExpand /\ [][CallExpand]_vars

Expanded == arg.fn = "expandEnvVarsRaw" /\ ret.fn = "expandEnvVarsRaw"

\* s contains "$$"
ContainsDollarEscape(s) == \E i \in 1..(Len(s) - 1) : s[i] = "$" /\ s[i + 1] = "$"

\* C30 as stated: for every s whose expansion succeeds and holds no ${
\* literal, expanding the expansion again returns it unchanged.
C30_ExpansionIdempotent ==
    (Expanded /\ ret.once.err = {} /\ ~ContainsEnvRef(ret.once.out)) =>
        ret.twice.err = {} /\ ret.twice.out = ret.once.out

\* C30, amended: for every s whose expansion succeeds and holds neither a
\* ${ literal nor a $$, expanding the expansion again returns it unchanged.
C30_ExpansionIdempotentWithoutEscapes ==
    (Expanded /\ ret.once.err = {} /\ ~ContainsEnvRef(ret.once.out)
              /\ ~ContainsDollarEscape(ret.once.out)) =>
        ret.twice.err = {} /\ ret.twice.out = ret.once.out

\* ${A}$ expands to x$, which a second expansion leaves alone
C30_Witness ==
    /\ Expanded
    /\ arg.s = <<"$", "{", "A", "}", "$">>
    /\ ret.once.err = {}
    /\ ret.once.out = <<"x", "$">>
    /\ ret.twice.err = {}
    /\ ret.twice.out = <<"x", "$">>

====
